---- MODULE Spec2Model ----
(***************************************************************************)
(* A model of the streaming core of udp_image_bitmap (src-tauri/src):      *)
(*   frame_pacer.rs  AdaptiveFramePacer, the rate control loop             *)
(*   udp_server.rs   UdpServer: the send loop and send_chunked             *)
(*   udp_client.rs   UdpClient: the receive loop and frame reassembly     *)
(*   lib.rs          the start/stop commands of the host shell            *)
(* Each component has its own specification (SpecPacer, SpecChunk, ...);   *)
(* a specification leaves the variables of the other components at their   *)
(* initial values.                                                         *)
(***************************************************************************)
EXTENDS Integers, Sequences, FiniteSets, TLC

VARIABLES
    \* ---- AdaptiveFramePacer (frame_pacer.rs:87-93) ----
    target_fps,               \* pacer.target_fps
    min_fps,                  \* min_fps
    max_fps,                  \* max_fps
    consecutive_slow_frames,  \* consecutive_slow_frames
    last_frame_time,          \* pacer.last_frame_time, kept as the time
                              \* elapsed since it in ms (rounded down), up
                              \* to ElapsedLimit
    frame_count,              \* pacer.frame_count
    last_report,              \* the report handled last and the rate before it
                              \* (observation only)
    \* ---- one call of UdpServer::send_chunked (udp_server.rs:163-211) ----
    chunk_size,               \* CHUNK_SIZE the sender splits with
    data,                     \* the payload passed to send_chunked
    frame_id,                 \* the frame id passed to send_chunked (u32)
    wire,                     \* the datagrams socket.send_to put on the wire
    send_result,              \* "none" before the call, then "ok" or "err"
    send_calls,               \* the send_to calls made, in order: the chunk
                              \* index of each and whether it failed
    \* ---- UdpClient (udp_client.rs:10-14) and its receive loop ----
    frame_buffer,             \* frame_buffer: frame id -> (chunks, timestamp);
                              \* the timestamp is kept as the entry's age
                              \* now - timestamp in ms, up to FRAME_TIMEOUT_MS
    emitted,                  \* the "screen-frame" events emitted so far
    last_recv,                \* what the last loop iteration received
                              \* (observation only)
    pending,                  \* the datagrams still to arrive, in arrival order
    scenario,                 \* what the network does to the frame sent
                              \* (observation only)
    \* ---- a second UdpClient fed the same arrivals, except that a chunk
    \*      its frame already holds is not delivered to it again ----
    once_buffer,              \* its frame_buffer
    once_emitted,             \* the events it emitted
    once_skipped,             \* the arrivals not delivered to it
    once_outlived,            \* some entry of frame_buffer has been fresh
                              \* while the same entry of once_buffer had
                              \* timed out (observation only)
    \* ---- receive threads that share one frame_buffer ----
    recv_threads,             \* per thread: buf, the datagram recv_from has
                              \* put in its buffer and that it has not yet
                              \* processed (<<>> if none), and seen, the
                              \* table as it was when recv_from returned
                              \* (observation only)
    \* ---- the send loop of UdpServer::start_streaming (udp_server.rs:41-136);
    \*      its pacer is the AdaptiveFramePacer above ----
    is_running,               \* *is_running
    loop_alive,               \* the spawned task has not left its while loop
    loop_frame_id,            \* frame_id (u32)
    consecutive_errors,       \* consecutive_errors
    loop_sends,               \* send_chunked calls that returned Ok so far
    last_cycle,               \* what the last step of the loop did
                              \* (observation only)
    recv_pc,                  \* where the receive loop of a UdpClient is:
                              \* "top" (at the while condition) or "reading"
                              \* (in recv_from); "none" when the loop
                              \* followed is not a receive loop
    \* ---- AppState and the commands of lib.rs ----
    instances,                \* every UdpServer / UdpClient constructed:
                              \* its kind and its is_running flag
    stored,                   \* state.server / state.client: 0 for None,
                              \* else the index of the instance held
    loops,                    \* every loop spawned: its instance, and
                              \* whether it is still in its while loop
    cmd_log                   \* the commands invoked so far, with results
                              \* (observation only)

pacerVars == <<target_fps, min_fps, max_fps, consecutive_slow_frames,
               last_frame_time, frame_count, last_report>>

chunkVars == <<chunk_size, data, frame_id, wire, send_result, send_calls>>

recvVars == <<frame_buffer, emitted, last_recv, pending, scenario>>

twinVars == <<once_buffer, once_emitted, once_skipped, once_outlived,
              recv_threads>>

loopVars == <<is_running, loop_alive, loop_frame_id, consecutive_errors,
              loop_sends, last_cycle, recv_pc>>

cmdVars == <<instances, stored, loops, cmd_log>>

vars == <<pacerVars, chunkVars, recvVars, twinVars, loopVars, cmdVars>>

Max(a, b) == IF a >= b THEN a ELSE b

Min(a, b) == IF a <= b THEN a ELSE b

\* the least integer not below a / b
CeilDiv(a, b) == IF a % b = 0 THEN a \div b ELSE a \div b + 1

(***************************************************************************)
(* IEEE-754 binary32 arithmetic, as far as the program uses it.            *)
(* An f32 literal is written as mantissa * 2^-shift with a 24-bit mantissa.*)
(***************************************************************************)

\* 0.8f32 = 13421773 * 2^-24 (0x3F4CCCCD), 0.9f32 = 15099494 * 2^-24
\* (0x3F666666), 1.1f32 = 9227469 * 2^-23 (0x3F8CCCCD)
F32_0_8 == [mant |-> 13421773, shift |-> 24]

F32_0_9 == [mant |-> 15099494, shift |-> 24]

F32_1_1 == [mant |-> 9227469, shift |-> 23]

RECURSIVE BitLen(_)
\* number of binary digits of p
BitLen(p) == IF p = 0 THEN 0 ELSE 1 + BitLen(p \div 2)

\* p rounded to 24 significant bits, ties to even: the f32 nearest to p * 2^k
RoundToF32(p) ==
    IF p < 2^24 THEN p
    ELSE LET s    == BitLen(p) - 24
             q    == p \div (2^s)
             r    == p % (2^s)
             half == 2^(s - 1)
             up   == r > half \/ (r = half /\ q % 2 = 1)
         IN  (IF up THEN q + 1 ELSE q) * (2^s)

\* (fps as f32 * c) as u32: the product is rounded to f32, the cast truncates
F32MulTrunc(fps, c) == RoundToF32(fps * c.mant) \div (2^c.shift)

(***************************************************************************)
(* FramePacer                                                              *)
(***************************************************************************)

\* Time is counted in whole milliseconds. last_frame_time holds the time
\* elapsed since the Instant of the field, rounded down: spf() is a whole
\* number of milliseconds, so elapsed >= spf has the same value for the
\* Duration and for its whole milliseconds. The field stops counting at
\* ElapsedLimit, which is above every interval (1000 ms at 1 fps).
ElapsedLimit == 1001

\* frame_count is a u64; the model stops capturing at MaxFrames
MaxFrames == 3

\* spf(): Duration::from_millis(1000 / target_fps), defined for fps > 0
Spf(fps) == 1000 \div fps

IntervalPassedStrictly(elapsed, fps) == elapsed > Spf(fps)

\* should_capture: elapsed >= spf
IntervalPassed(elapsed, fps) == elapsed >= Spf(fps)

(***************************************************************************)
(* AdaptiveFramePacer                                                      *)
(***************************************************************************)

\* packet_loss_threshold = 0.1 (frame_pacer.rs:101). Loss rates are given in
\* per mille: r stands for the f32 nearest to r/1000, and rounding to f32 is
\* monotone, so r > 100 iff loss_rate > 0.1f32 and 2r < 100 iff
\* loss_rate < 0.1f32 / 2.0.
packet_loss_threshold == 100

\* consecutive slow frames that trigger a reduction (frame_pacer.rs:147)
SLOW_FRAME_LIMIT == 5

\* the largest rate a pacer of the model is configured with
FpsLimit == 100

\* the server's configuration (udp_server.rs:10-12)
TARGET_FPS == 30

MIN_FPS == 10

MAX_FPS == 60

FpsValues == {0, 1, 2, MIN_FPS, TARGET_FPS, MAX_FPS, FpsLimit}

\* AdaptiveFramePacer::new(default_fps, min_fps, max_fps),
\* with min_fps <= default_fps <= max_fps
PacerConfigs ==
    {c \in FpsValues \X FpsValues \X FpsValues : c[2] <= c[1] /\ c[1] <= c[3]}

LossRates == {0, 10, 49, 50, 75, 100, 101, 150, 1000}

\* the frame times around the slow threshold of the current rate
FrameTimes(fps) == {0, 2 * (1000 \div fps), 2 * (1000 \div fps) + 1, 5000}

ReduceForLossNoClamp(fps, lo) == F32MulTrunc(fps, F32_0_8)

ReduceForLossByTenth(fps, lo) == Max(F32MulTrunc(fps, F32_0_9), lo)

ReduceForSlowFrameByFifth(fps, lo) == Max(F32MulTrunc(fps, F32_0_8), lo)

ReduceToMin(fps, lo) == lo

\* high loss: new_fps = ((fps as f32 * 0.8) as u32).max(min_fps)
ReduceForLoss(fps, lo) == Max(F32MulTrunc(fps, F32_0_8), lo)

IncreaseForLowLossByTwentieth(fps, hi) == Min((21 * fps) \div 20, hi)

IncreaseForLowLossNoClamp(fps, hi) == F32MulTrunc(fps, F32_1_1)

\* low loss: new_fps = ((fps as f32 * 1.1) as u32).min(max_fps)
IncreaseForLowLoss(fps, hi) == Min(F32MulTrunc(fps, F32_1_1), hi)

\* slow encoding: new_fps = ((fps as f32 * 0.9) as u32).max(min_fps)
ReduceForSlowFrame(fps, lo) == Max(F32MulTrunc(fps, F32_0_9), lo)

\* the rate after adjust_for_packet_loss(loss_rate)
FpsAfterLoss(fps, lo, hi, loss) ==
    IF loss > packet_loss_threshold THEN ReduceForLoss(fps, lo)
    ELSE IF 2 * loss < packet_loss_threshold THEN IncreaseForLowLoss(fps, hi)
    ELSE fps

PacerStart ==
    /\ \E c \in PacerConfigs :
          /\ target_fps = c[1]
          /\ min_fps = c[2]
          /\ max_fps = c[3]
    /\ consecutive_slow_frames = 0
    /\ last_frame_time = 0
    /\ frame_count = 0
    /\ last_report = [op |-> "new", arg |-> 0, before |-> 0]

\* adjust_for_packet_loss: set_fps is called only when the rate changes,
\* which assigns the same value as assigning it always
AdjustForPacketLoss(loss) ==
    /\ target_fps' = FpsAfterLoss(target_fps, min_fps, max_fps, loss)
    /\ last_report' = [op |-> "loss", arg |-> loss, before |-> target_fps]
    /\ UNCHANGED <<min_fps, max_fps, consecutive_slow_frames, last_frame_time,
                   frame_count>>

\* adjust_for_slow_frame; 1000 / target_fps panics for target_fps = 0 before
\* any field is assigned
AdjustForSlowFrame(frame_time_ms) ==
    /\ target_fps # 0
    /\ last_report' = [op |-> "slow", arg |-> frame_time_ms,
                       before |-> target_fps]
    /\ LET target_frame_time == 1000 \div target_fps
       IN  IF frame_time_ms > target_frame_time * 2
           THEN IF consecutive_slow_frames + 1 >= SLOW_FRAME_LIMIT
                THEN /\ target_fps' = ReduceForSlowFrame(target_fps, min_fps)
                     /\ consecutive_slow_frames' = 0
                ELSE /\ consecutive_slow_frames' = consecutive_slow_frames + 1
                     /\ UNCHANGED target_fps
           ELSE /\ consecutive_slow_frames' = 0
                /\ UNCHANGED target_fps
    /\ UNCHANGED <<min_fps, max_fps, last_frame_time, frame_count>>

(***************************************************************************)
(* u32 values and the wire format (udp_server.rs:169-173,                  *)
(* udp_client.rs:65-68). A u32 is kept as its two 16-bit halves, so that   *)
(* the whole range 0 .. 2^32-1 and the wrap-around are represented.        *)
(***************************************************************************)

U32(n) == [hi |-> n \div 65536, lo |-> n % 65536]

U32_MAX == [hi |-> 65535, lo |-> 65535]

\* u32::to_le_bytes
ToLeBytes(u) == <<u.lo % 256, u.lo \div 256, u.hi % 256, u.hi \div 256>>

\* u32::to_be_bytes
ToBeBytes(u) == <<u.hi \div 256, u.hi % 256, u.lo \div 256, u.lo % 256>>

\* u32::from_be_bytes([b1, b2, b3, b4])
FromBeBytes(b1, b2, b3, b4) == [hi |-> b1 * 256 + b2, lo |-> b3 * 256 + b4]

\* u32 as usize (the model only meets values below 2^31 here)
AsUsize(u) == u.hi * 65536 + u.lo

\* u32::wrapping_add(1)
SaturatingAdd1(u) ==
    IF u.lo < 65535 THEN [hi |-> u.hi, lo |-> u.lo + 1]
    ELSE IF u.hi < 65535 THEN [hi |-> u.hi + 1, lo |-> 0]
    ELSE u

WrappingAdd1(u) ==
    IF u.lo < 65535 THEN [hi |-> u.hi, lo |-> u.lo + 1]
    ELSE IF u.hi < 65535 THEN [hi |-> u.hi + 1, lo |-> 0]
    ELSE [hi |-> 0, lo |-> 0]

\* header length in bytes
HEADER_LEN == 12

\* a datagram: frame_id, chunk index, total_chunks big-endian, then the chunk
Packet(fid, i, total_chunks, chunk) ==
    ToBeBytes(fid) \o ToBeBytes(U32(i)) \o ToBeBytes(U32(total_chunks)) \o chunk

(***************************************************************************)
(* UdpServer::send_chunked                                                 *)
(***************************************************************************)

CHUNK_SIZE == 8192

REDUNDANT_PACKETS_OFF == FALSE

REDUNDANT_PACKETS == TRUE

\* a sender that retransmits for every frame
RetransmitsAlways(total_chunks) == REDUNDANT_PACKETS

\* if REDUNDANT_PACKETS && total_chunks > 2
Retransmits(total_chunks) == REDUNDANT_PACKETS /\ total_chunks > 2

\* (data.len() + CHUNK_SIZE - 1) / CHUNK_SIZE
TotalChunks(len, c) == (len + c - 1) \div c

\* a chunking that keeps only the full slices (slice::chunks_exact)
ChunksOfExact(d, c) ==
    [i \in 1..(Len(d) \div c) |-> SubSeq(d, (i - 1) * c + 1, i * c)]

\* data.chunks(CHUNK_SIZE): slices of c bytes, the last one possibly shorter
ChunksOf(d, c) ==
    [i \in 1..CeilDiv(Len(d), c) |->
        SubSeq(d, (i - 1) * c + 1, Min(i * c, Len(d)))]

\* send_chunked(socket, data, frame_id) with chunk size c. The send_to calls
\* are numbered 1 .. n (first pass), n+1 (chunk 0 again), n+2 (last chunk
\* again); fails is the set of calls that return an error. A failing call
\* puts nothing on the wire. In the first pass an error returns at once
\* (the ? of line 176); in the second pass errors are ignored (let _ =).
\* calls lists the send_to calls made, with the chunk index of each.
SendChunked(d, fid, c, fails) ==
    LET total_chunks == TotalChunks(Len(d), c)
        chunks       == ChunksOf(d, c)
        n            == Len(chunks)
        failing      == {k \in 1..n : k \in fails}
        stop         == IF failing = {} THEN n + 1
                        ELSE CHOOSE k \in failing : \A j \in failing : k <= j
        first_pass   == [i \in 1..(stop - 1) |->
                            Packet(fid, i - 1, total_chunks, chunks[i])]
        first_calls  == [i \in 1..Min(stop, n) |->
                            [chunk_idx |-> i - 1, failed |-> i = stop]]
        again_first  == IF (n + 1) \in fails THEN <<>>
                        ELSE <<Packet(fid, 0, total_chunks, chunks[1])>>
        again_last   == IF (n + 2) \in fails THEN <<>>
                        ELSE <<Packet(fid, n - 1, total_chunks, chunks[n])>>
        again_calls  == <<[chunk_idx |-> 0, failed |-> (n + 1) \in fails],
                          [chunk_idx |-> n - 1, failed |-> (n + 2) \in fails]>>
    IN  IF stop <= n
        THEN [sent |-> first_pass, ok |-> FALSE, calls |-> first_calls]
        ELSE IF Retransmits(total_chunks)
        THEN [sent |-> first_pass \o again_first \o again_last, ok |-> TRUE,
              calls |-> first_calls \o again_calls]
        ELSE [sent |-> first_pass, ok |-> TRUE, calls |-> first_calls]

\* what the receiver reads of a datagram of at least 12 bytes
\* (udp_client.rs:65-68)
ParseDatagram(p) ==
    [frame_id     |-> FromBeBytes(p[1], p[2], p[3], p[4]),
     chunk_idx    |-> AsUsize(FromBeBytes(p[5], p[6], p[7], p[8])),
     total_chunks |-> AsUsize(FromBeBytes(p[9], p[10], p[11], p[12])),
     chunk_data   |-> SubSeq(p, HEADER_LEN + 1, Len(p))]

(***************************************************************************)
(* Payloads. An image payload starts with FF D8 and ends with FF D9; the   *)
(* bytes in between differ from position to position, so that a chunk out  *)
(* of place or missing changes the payload.                                *)
(***************************************************************************)

FillByte(i) == (i * 7 + 3) % 251

\* a payload of len bytes; start and end say whether it carries the markers
Payload(len, start, end) ==
    [i \in 1..len |->
        IF start /\ i = 1 THEN 255
        ELSE IF start /\ i = 2 /\ len >= 2 THEN 216
        ELSE IF end /\ i = len - 1 /\ len >= 2 THEN 255
        ELSE IF end /\ i = len /\ len >= 2 THEN 217
        ELSE FillByte(i)]

RECURSIVE Concat(_)
\* the concatenation of a sequence of byte sequences
Concat(ss) ==
    IF Len(ss) = 0 THEN <<>>
    ELSE IF Len(ss) = 1 THEN ss[1]
    ELSE LET h == Len(ss) \div 2
         IN  Concat(SubSeq(ss, 1, h)) \o Concat(SubSeq(ss, h + 1, Len(ss)))

(***************************************************************************)
(* base64 (STANDARD engine: the standard alphabet with padding), as the    *)
(* receiver applies it to a frame before emitting it. A text is a sequence *)
(* of alphabet positions 0..63, with 64 for the padding character.         *)
(***************************************************************************)

B64_PAD == 64

Base64Encode(bytes) ==
    LET n      == Len(bytes)
        b(i)   == IF i <= n THEN bytes[i] ELSE 0
        sym(j) ==
            LET g  == (j - 1) \div 4
                k  == (j - 1) % 4
                b1 == b(3 * g + 1)
                b2 == b(3 * g + 2)
                b3 == b(3 * g + 3)
            IN  CASE k = 0 -> b1 \div 4
                  [] k = 1 -> (b1 % 4) * 16 + b2 \div 16
                  [] k = 2 -> IF 3 * g + 2 > n THEN B64_PAD
                              ELSE (b2 % 16) * 4 + b3 \div 64
                  [] k = 3 -> IF 3 * g + 3 > n THEN B64_PAD ELSE b3 % 64
    IN  [j \in 1..(4 * ((n + 2) \div 3)) |-> sym(j)]

\* the bytes a base64 text stands for (what the consumer decodes)
Base64Decode(text) ==
    LET m      == Len(text)
        pad    == IF m = 0 THEN 0
                  ELSE IF text[m - 1] = B64_PAD THEN 2
                  ELSE IF text[m] = B64_PAD THEN 1 ELSE 0
        n      == 3 * (m \div 4) - pad
        s(j)   == IF text[j] = B64_PAD THEN 0 ELSE text[j]
        byte(i) ==
            LET g == (i - 1) \div 3
                k == (i - 1) % 3
            IN  CASE k = 0 -> s(4 * g + 1) * 4 + s(4 * g + 2) \div 16
                  [] k = 1 -> (s(4 * g + 2) % 16) * 16 + s(4 * g + 3) \div 4
                  [] k = 2 -> (s(4 * g + 3) % 4) * 64 + s(4 * g + 4)
    IN  [i \in 1..n |-> byte(i)]

(***************************************************************************)
(* UdpClient::start_receiving: the processing of one datagram              *)
(***************************************************************************)

FRAME_TIMEOUT_MS == 500

\* MIN_FRAME_COMPLETION = 0.98f32 = 16441672 * 2^-24 (0x3F7AE148); the
\* literal 0.98 of line 111 is the same f32
MIN_FRAME_COMPLETION == 16441672

\* the smallest frame that is emitted (udp_client.rs:141)
MIN_FRAME_LEN == 100

\* mantissa bits of the ratio's scale: ratios are counted in units of 2^-24
RATIO_BITS == 24

RECURSIVE DivBits(_, _, _, _)
\* long division: k more binary digits of rem / t after the quotient q
DivBits(q, rem, t, k) ==
    IF k = 0 THEN [q |-> q, rem |-> rem]
    ELSE IF 2 * rem >= t THEN DivBits(2 * q + 1, 2 * rem - t, t, k - 1)
    ELSE DivBits(2 * q, 2 * rem, t, k - 1)

\* received as f32 / total as f32 for 0 <= received <= total, total >= 1, in
\* units of 2^-24, rounded to nearest, ties to even. From 0.5 up this is the
\* f32 quotient exactly; below 0.5 an f32 is finer than the unit, and the
\* rounding to the unit keeps the order against any value from 0.5 up.
CompletionRatio(received, total) ==
    IF received = total THEN 2^RATIO_BITS
    ELSE LET d  == DivBits(0, received, total, RATIO_BITS)
             up == 2 * d.rem > total \/ (2 * d.rem = total /\ d.q % 2 = 1)
         IN  IF up THEN d.q + 1 ELSE d.q

\* 1.0f32 in units of 2^-24
RatioOne == 2^RATIO_BITS

\* the same store, appending to a slot that is already populated
StoreChunkAppend(chunks, idx, chunk_data) ==
    [chunks EXCEPT ![idx + 1] = @ \o chunk_data]

\* a variant that stores in order of arrival: in the first empty slot
StoreChunkFirstFree(chunks, idx, chunk_data) ==
    LET free == {i \in 1..Len(chunks) : chunks[i] = <<>>}
    IN  IF free = {} THEN chunks
        ELSE [chunks EXCEPT
                 ![CHOOSE i \in free : \A j \in free : i <= j] = chunk_data]

\* chunks[chunk_idx as usize] = chunk_data
StoreChunk(chunks, idx, chunk_data) == [chunks EXCEPT ![idx + 1] = chunk_data]

\* chunks.iter().filter(|c| !c.is_empty()).count()
ReceivedChunks(chunks) == Cardinality({i \in 1..Len(chunks) : chunks[i] # <<>>})

\* only complete frames are processed
ShouldProcessCompleteOnly(ratio) == ratio >= RatioOne

\* is_complete || (completion_ratio >= MIN_FRAME_COMPLETION
\*                 && completion_ratio > 0.98)
ShouldProcess(ratio) ==
    ratio >= RatioOne
    \/ (ratio >= MIN_FRAME_COMPLETION /\ ratio > MIN_FRAME_COMPLETION)

\* the populated slots in index order
NonEmpty(chunks) == SelectSeq(chunks, LAMBDA c : c # <<>>)

\* a variant that puts one zero byte in the place of each missing chunk
AssembleFrameFilled(chunks, is_complete) ==
    Concat([i \in 1..Len(chunks) |->
               IF chunks[i] = <<>> THEN <<0>> ELSE chunks[i]])

\* complete_frame: chunks.concat() for a complete frame, else the
\* concatenation of the non-empty chunks
AssembleFrame(chunks, is_complete) ==
    IF is_complete THEN Concat(chunks) ELSE Concat(NonEmpty(chunks))

HasJpegStart(f) == Len(f) >= 2 /\ f[1] = 255 /\ f[2] = 216

HasJpegEnd(f) == Len(f) >= 2 /\ f[Len(f) - 1] = 255 /\ f[Len(f)] = 217

\* a validation that does not look at the end marker
FrameIsValidNoEnd(f, ratio) == Len(f) >= MIN_FRAME_LEN /\ HasJpegStart(f)

\* the validation of lines 141-147
FrameIsValid(f, ratio) ==
    /\ Len(f) >= MIN_FRAME_LEN
    /\ HasJpegStart(f)
    /\ (HasJpegEnd(f) \/ ratio < RatioOne)

RetainAll(buf) == buf

\* a variant that keeps an entry that is exactly as old as the timeout
RetainInclusive(buf) ==
    LET fresh == {id \in DOMAIN buf : buf[id].age <= FRAME_TIMEOUT_MS}
    IN  [id \in fresh |-> buf[id]]

\* buffer.retain(..): the entries whose age is below the timeout
Retain(buf) ==
    LET fresh == {id \in DOMAIN buf : buf[id].age < FRAME_TIMEOUT_MS}
    IN  [id \in fresh |-> buf[id]]

\* a variant that leaves the entry in the table
KeepEntry(buf, id) == buf

\* buffer.remove(&frame_id)
RemoveEntry(buf, id) == [k \in (DOMAIN buf) \ {id} |-> buf[k]]

\* buffer with (chunks, now) stored under id
PutEntry(buf, id, chunks) ==
    [k \in (DOMAIN buf) \cup {id} |->
        IF k = id THEN [chunks |-> chunks, age |-> 0] ELSE buf[k]]

\* a variant that allocates the slots anew when the datagram's total_chunks
\* differs from the entry's slot count
EntrySlotsResized(kept, id, total_chunks) ==
    IF id \in DOMAIN kept /\ Len(kept[id].chunks) = total_chunks
    THEN kept[id].chunks
    ELSE [i \in 1..total_chunks |-> <<>>]

\* buffer.entry(frame_id).or_insert_with(|| (vec![Vec::new(); total_chunks
\* as usize], now)): the slots of the entry, allocated if it is not there
EntrySlots(kept, id, total_chunks) ==
    IF id \in DOMAIN kept THEN kept[id].chunks
    ELSE [i \in 1..total_chunks |-> <<>>]

\* The body of the Ok((size, _)) arm for size >= 12 (lines 65-180), under
\* the frame_buffer lock: the table and the events emitted (none or one).
HandleDatagram(buf, p) ==
    LET d       == ParseDatagram(p)
        id      == d.frame_id
        kept    == Retain(buf)
        chunks0 == EntrySlots(kept, id, d.total_chunks)
    IN  IF ~(d.chunk_idx < Len(chunks0))
        THEN \* invalid index: continue, the entry and its timestamp stay
             [buf |-> PutEntry(kept, id, chunks0), emit |-> <<>>]
        ELSE
        LET chunks    == StoreChunk(chunks0, d.chunk_idx, d.chunk_data)
            ratio     == CompletionRatio(ReceivedChunks(chunks), Len(chunks))
            complete  == ratio >= RatioOne
            frame     == AssembleFrame(chunks, complete)
        IN  IF ShouldProcess(ratio)
            THEN \* the chunk was stored in the entry; the entry is removed
                 [buf  |-> RemoveEntry(PutEntry(kept, id, chunks), id),
                  emit |-> IF FrameIsValid(frame, ratio)
                           THEN <<[frame_id |-> id,
                                   image    |-> Base64Encode(frame),
                                   complete |-> complete]>>
                           ELSE <<>>]
            ELSE [buf |-> PutEntry(kept, id, chunks), emit |-> <<>>]

RECURSIVE ReceiveAll(_, _)
\* the events emitted by the loop when the datagrams of a sequence (each of
\* at least 12 bytes) arrive one after the other, starting from table buf
ReceiveAll(buf, dgrams) ==
    IF dgrams = <<>> THEN <<>>
    ELSE LET r == HandleDatagram(buf, Head(dgrams))
         IN  r.emit \o ReceiveAll(r.buf, Tail(dgrams))

(***************************************************************************)
(* Specifications                                                          *)
(***************************************************************************)

PacerIdle ==
    /\ target_fps = TARGET_FPS /\ min_fps = MIN_FPS /\ max_fps = MAX_FPS
    /\ consecutive_slow_frames = 0
    /\ last_frame_time = 0
    /\ frame_count = 0
    /\ last_report = [op |-> "new", arg |-> 0, before |-> 0]

ChunkIdle ==
    /\ chunk_size = CHUNK_SIZE
    /\ data = <<>>
    /\ frame_id = U32(0)
    /\ wire = <<>>
    /\ send_result = "none"
    /\ send_calls = <<>>

RecvIdle ==
    /\ frame_buffer = <<>>
    /\ emitted = <<>>
    /\ last_recv = [kind |-> "none"]
    /\ pending = <<>>
    /\ scenario = [order |-> "none"]

TwinIdle ==
    /\ once_buffer = <<>>
    /\ once_emitted = <<>>
    /\ once_skipped = 0
    /\ once_outlived = FALSE
    /\ recv_threads = <<>>

LoopIdle ==
    /\ is_running = FALSE
    /\ loop_alive = FALSE
    /\ loop_frame_id = U32(0)
    /\ consecutive_errors = 0
    /\ loop_sends = 0
    /\ last_cycle = [kind |-> "none"]
    /\ recv_pc = "none"

CmdIdle ==
    /\ instances = <<>>
    /\ stored = [k \in {"server", "client"} |-> 0]
    /\ loops = <<>>
    /\ cmd_log = <<>>

\* ---- SpecPacer: a pacer under arbitrary reports ----

InitPacer ==
    PacerStart /\ ChunkIdle /\ RecvIdle /\ TwinIdle /\ LoopIdle /\ CmdIdle

ReportLoss ==
    /\ \E loss \in LossRates : AdjustForPacketLoss(loss)
    /\ UNCHANGED <<chunkVars, recvVars, twinVars, loopVars, cmdVars>>

ReportFrameTime ==
    /\ target_fps # 0
    /\ \E ft \in FrameTimes(target_fps) : AdjustForSlowFrame(ft)
    /\ UNCHANGED <<chunkVars, recvVars, twinVars, loopVars, cmdVars>>

NextPacer == ReportLoss \/ ReportFrameTime

SpecPacer == InitPacer /\ [][NextPacer]_vars

\* ---- SpecFrame: a FramePacer, its clock and its callers ----

\* the rates of FramePacer::new and set_fps; 1000 and 1001 give intervals of
\* one and of zero milliseconds
FrameRates == FpsValues \cup {1000, 1001}

\* the sleeps of a caller between two calls
SleepSteps == {1, 16, 500}

\* FramePacer::new(target_fps)
InitFrame ==
    /\ \E fps \in FrameRates : target_fps = fps
    /\ min_fps = MIN_FPS /\ max_fps = MAX_FPS
    /\ consecutive_slow_frames = 0
    /\ last_frame_time = 0
    /\ frame_count = 0
    /\ last_report = [op |-> "new", arg |-> 0, before |-> 0]
    /\ ChunkIdle /\ RecvIdle /\ TwinIdle /\ LoopIdle /\ CmdIdle

\* time passes between two calls
Sleep(ms) ==
    /\ last_frame_time' = Min(last_frame_time + ms, ElapsedLimit)
    /\ last_report' = [op |-> "sleep", arg |-> ms, before |-> frame_count]
    /\ UNCHANGED <<target_fps, min_fps, max_fps, consecutive_slow_frames,
                   frame_count>>
    /\ UNCHANGED <<chunkVars, recvVars, twinVars, loopVars, cmdVars>>

SleepSome == \E ms \in SleepSteps : Sleep(ms)

\* sleep_until_next: sleeps for what is left of the interval, if anything
SleepUntilNext ==
    /\ target_fps # 0
    /\ last_frame_time' = Max(last_frame_time, Spf(target_fps))
    /\ last_report' = [op |-> "sleep_until_next",
                       arg |-> Max(Spf(target_fps) - last_frame_time, 0),
                       before |-> frame_count]
    /\ UNCHANGED <<target_fps, min_fps, max_fps, consecutive_slow_frames,
                   frame_count>>
    /\ UNCHANGED <<chunkVars, recvVars, twinVars, loopVars, cmdVars>>

\* should_capture; last_report keeps the elapsed time the call has seen, the
\* frame count before it and the value it returned
ShouldCapture ==
    /\ target_fps # 0
    /\ frame_count < MaxFrames
    /\ IF IntervalPassed(last_frame_time, target_fps)
       THEN /\ last_frame_time' = 0
            /\ frame_count' = frame_count + 1
       ELSE UNCHANGED <<last_frame_time, frame_count>>
    /\ last_report' = [op |-> "should_capture", arg |-> last_frame_time,
                       before |-> frame_count,
                       result |-> IntervalPassed(last_frame_time, target_fps)]
    /\ UNCHANGED <<target_fps, min_fps, max_fps, consecutive_slow_frames>>
    /\ UNCHANGED <<chunkVars, recvVars, twinVars, loopVars, cmdVars>>

\* should_capture or sleep_until_next at a rate of zero: spf() divides by
\* zero and the call panics before it has changed anything
SpfPanics ==
    /\ target_fps = 0
    /\ last_report' = [op |-> "panic", arg |-> last_frame_time,
                       before |-> frame_count]
    /\ UNCHANGED <<target_fps, min_fps, max_fps, consecutive_slow_frames,
                   last_frame_time, frame_count>>
    /\ UNCHANGED <<chunkVars, recvVars, twinVars, loopVars, cmdVars>>

\* set_fps(fps)
SetFps(fps) ==
    /\ target_fps' = fps
    /\ last_report' = [op |-> "set_fps", arg |-> fps, before |-> target_fps]
    /\ UNCHANGED <<min_fps, max_fps, consecutive_slow_frames, last_frame_time,
                   frame_count>>
    /\ UNCHANGED <<chunkVars, recvVars, twinVars, loopVars, cmdVars>>

SetFpsSome == \E fps \in FrameRates : SetFps(fps)

\* reset()
Reset ==
    /\ frame_count' = 0
    /\ last_frame_time' = 0
    /\ last_report' = [op |-> "reset", arg |-> last_frame_time,
                       before |-> frame_count]
    /\ UNCHANGED <<target_fps, min_fps, max_fps, consecutive_slow_frames>>
    /\ UNCHANGED <<chunkVars, recvVars, twinVars, loopVars, cmdVars>>

NextFrame ==
    SleepSome \/ SleepUntilNext \/ ShouldCapture \/ SpfPanics \/ SetFpsSome
        \/ Reset

SpecFrame == InitFrame /\ [][NextFrame]_vars

\* ---- SpecChunk: one call of send_chunked ----

\* the payload lengths of the chunking round trip, and two with more than
\* two chunks of which the last is short or full
ChunkLengths(c) == {0, 1, c - 1, c, c + 1, 10 * c, 2 * c + 1, 3 * c}

\* the calls of send_to that fail: none, a single one, or all of them
FailSets(n) == {{}} \cup {{k} : k \in 1..(n + 2)} \cup {1..(n + 2)}

InitChunk ==
    /\ PacerIdle /\ RecvIdle /\ TwinIdle /\ LoopIdle /\ CmdIdle
    /\ chunk_size = CHUNK_SIZE
    /\ \E len \in ChunkLengths(CHUNK_SIZE) : data = Payload(len, TRUE, TRUE)
    /\ frame_id \in {U32(0), U32(1), U32_MAX}
    /\ wire = <<>>
    /\ send_result = "none"
    /\ send_calls = <<>>

CallSendChunked ==
    /\ send_result = "none"
    /\ \E fails \in FailSets(TotalChunks(Len(data), chunk_size)) :
          LET r == SendChunked(data, frame_id, chunk_size, fails)
          IN  /\ wire' = r.sent
              /\ send_result' = IF r.ok THEN "ok" ELSE "err"
              /\ send_calls' = r.calls
    /\ UNCHANGED <<chunk_size, data, frame_id, pacerVars, recvVars, twinVars,
                   loopVars, cmdVars>>

NextChunk == CallSendChunked

SpecChunk == InitChunk /\ [][NextChunk]_vars

\* ---- SpecRecv: one frame sent, its datagrams arriving in a given order ----
\* All arrivals are less than the timeout apart: no time passes.

\* the smallest chunk size of a scaled-down sender
SmallChunk == 2

\* The receiver does not read CHUNK_SIZE. To keep frames of many chunks
\* small, the sender of these runs splits with the smallest chunk size (at
\* least SmallChunk) for which a frame of n chunks, the last of one byte,
\* has MIN_FRAME_LEN bytes.
ScaledChunk(n) == Max(SmallChunk, CeilDiv(MIN_FRAME_LEN, Max(n - 1, 1)))

RecvChunkCounts == {1, 2, 3, 5, 50, 51, 100}

\* the chunk indexes that never arrive
DropSets(n) ==
    {{}}
    \cup {{k} : k \in {0, 1, n \div 2, n - 1} \cap (1..(n - 1))}
    \cup (IF n >= 2 THEN {{0}} ELSE {})
    \cup (IF n >= 10
          THEN {1..5, (n - 5)..(n - 1), {1 + k * (n \div 5) : k \in 0..4}}
          ELSE {})

\* "sent": every datagram in the order sent, retransmissions included;
\* "forward": the n chunks in index order; "reverse": in reverse index order
Orders == {"sent", "forward", "reverse"}

Reverse(seq) == [i \in 1..Len(seq) |-> seq[Len(seq) + 1 - i]]

Arrivals(sent, n, order, drop) ==
    LET first == SubSeq(sent, 1, n)
        all   == CASE order = "sent" -> sent
                   [] order = "forward" -> first
                   [] order = "reverse" -> Reverse(first)
    IN  SelectSeq(all, LAMBDA p : ParseDatagram(p).chunk_idx \notin drop)

InitRecv ==
    /\ PacerIdle /\ TwinIdle /\ LoopIdle /\ CmdIdle
    /\ \E n \in RecvChunkCounts, short_last \in BOOLEAN, order \in Orders :
         \E drop \in DropSets(n) :
          LET c   == ScaledChunk(n)
              len == IF short_last THEN (n - 1) * c + 1 ELSE n * c
              d   == Payload(len, TRUE, TRUE)
              r   == SendChunked(d, U32(7), c, {})
          IN  /\ len >= MIN_FRAME_LEN
              /\ chunk_size = c
              /\ data = d
              /\ frame_id = U32(7)
              /\ wire = r.sent
              /\ send_result = "ok"
              /\ send_calls = r.calls
              /\ scenario = [order |-> order, n |-> n, drop |-> drop]
              /\ pending = Arrivals(r.sent, n, order, drop)
    /\ frame_buffer = <<>>
    /\ emitted = <<>>
    /\ last_recv = [kind |-> "none"]

\* the datagram repeats a chunk that a fresh entry of the table already holds
IsFreshDuplicate(buf, p) ==
    /\ Len(p) >= HEADER_LEN
    /\ LET d == ParseDatagram(p)
       IN  /\ d.frame_id \in DOMAIN buf
           /\ buf[d.frame_id].age < FRAME_TIMEOUT_MS
           /\ d.chunk_idx < Len(buf[d.frame_id].chunks)
           /\ d.chunk_data # <<>>
           /\ buf[d.frame_id].chunks[d.chunk_idx + 1] = d.chunk_data

\* a variant that runs the cleanup of old frames before the size check
DropUndersizedAfterCleanup(buf) == Retain(buf)

\* the table after a datagram of less than 12 bytes: continue, before the
\* lock is taken
DropUndersized(buf) == buf

\* one iteration of the receive loop in which recv_from returns datagram p
RecvFrom(p) ==
    IF Len(p) < HEADER_LEN
    THEN /\ last_recv' = [kind |-> "short"]
         /\ frame_buffer' = DropUndersized(frame_buffer)
         /\ UNCHANGED emitted
    ELSE LET r == HandleDatagram(frame_buffer, p)
         IN  /\ frame_buffer' = r.buf
             /\ emitted' = emitted \o r.emit
             /\ last_recv' =
                  [kind      |-> "dgram",
                   frame_id  |-> ParseDatagram(p).frame_id,
                   chunk_idx |-> ParseDatagram(p).chunk_idx,
                   total_chunks |-> ParseDatagram(p).total_chunks,
                   payload_len |-> Len(ParseDatagram(p).chunk_data),
                   duplicate |-> IsFreshDuplicate(frame_buffer, p),
                   evicted   |-> (DOMAIN frame_buffer)
                                   \ (DOMAIN Retain(frame_buffer))]

\* one iteration of the receive loop, receiving the next datagram to arrive
RecvDatagram ==
    /\ pending # <<>>
    /\ RecvFrom(Head(pending))
    /\ pending' = Tail(pending)

RecvScripted ==
    /\ RecvDatagram
    /\ UNCHANGED <<scenario, pacerVars, chunkVars, twinVars, loopVars, cmdVars>>

NextRecv == RecvScripted

SpecRecv == InitRecv /\ [][NextRecv]_vars

\* ---- SpecValid: payloads of any length, with and without the markers ----

ValidChunkCounts == {1, 2, 3, 51}

\* the payload lengths that make n chunks of c bytes, and the length just
\* below the minimum where that is one of them
ValidLengths(n, c) ==
    {len \in {(n - 1) * c + 1, n * c, MIN_FRAME_LEN - 1} :
        TotalChunks(len, c) = n}

InitValid ==
    /\ PacerIdle /\ TwinIdle /\ LoopIdle /\ CmdIdle
    /\ \E n \in ValidChunkCounts, start \in BOOLEAN, end \in BOOLEAN,
          order \in {"sent", "reverse"} :
         \E drop \in DropSets(n), c \in {SmallChunk, ScaledChunk(n)} :
          \E len \in ValidLengths(n, c) :
          LET d == Payload(len, start, end)
              r == SendChunked(d, U32(7), c, {})
          IN  /\ chunk_size = c
              /\ data = d
              /\ frame_id = U32(7)
              /\ wire = r.sent
              /\ send_result = "ok"
              /\ send_calls = r.calls
              /\ scenario = [order |-> order, n |-> n, drop |-> drop]
              /\ pending = Arrivals(r.sent, n, order, drop)
    /\ frame_buffer = <<>>
    /\ emitted = <<>>
    /\ last_recv = [kind |-> "none"]

SpecValid == InitValid /\ [][NextRecv]_vars

\* ---- SpecNet: one frame sent into a network that loses and reorders its
\*      datagrams, while time passes and the stream goes on ----

NetChunkCounts == {1, 2, 3}

\* the network duplicates at most this many datagrams
MaxDuplicates == 1

\* the steps of time: half the timeout
TickSteps == {FRAME_TIMEOUT_MS \div 2 - 1, FRAME_TIMEOUT_MS \div 2}

\* a datagram of the frame that follows: chunk 0 of 2
ForeignDatagram == Packet(U32(8), 0, 2, Payload(SmallChunk, FALSE, FALSE))

\* a datagram of the frame in flight (n chunks) whose chunk index is not
\* below the chunk count
InvalidDatagram(n) == Packet(U32(7), n, n, Payload(SmallChunk, FALSE, FALSE))

\* a datagram shorter than the header
ShortDatagram == SubSeq(ForeignDatagram, 1, HEADER_LEN - 1)

\* the table ms milliseconds later
Aged(buf, ms) ==
    [id \in DOMAIN buf |->
        [buf[id] EXCEPT !.age = Min(@ + ms, FRAME_TIMEOUT_MS)]]

\* an entry of table a is fresh while the same entry of b has timed out
Outlives(a, b) ==
    \E id \in (DOMAIN a) \cap (DOMAIN b) :
        a[id].age < FRAME_TIMEOUT_MS /\ b[id].age >= FRAME_TIMEOUT_MS

RemoveAt(seq, i) == SubSeq(seq, 1, i - 1) \o SubSeq(seq, i + 1, Len(seq))

InitNet ==
    /\ PacerIdle /\ TwinIdle /\ LoopIdle /\ CmdIdle
    /\ \E n \in NetChunkCounts :
          LET c   == ScaledChunk(n)
              len == (n - 1) * c + Max(c \div 2, MIN_FRAME_LEN - (n - 1) * c)
              d   == Payload(len, TRUE, TRUE)
              r   == SendChunked(d, U32(7), c, {})
          IN  /\ chunk_size = c
              /\ data = d
              /\ frame_id = U32(7)
              /\ wire = r.sent
              /\ send_result = "ok"
              /\ send_calls = r.calls
              /\ scenario = [order |-> "net", n |-> n, drop |-> {},
                             duplicated |-> 0]
              /\ pending = r.sent
    /\ frame_buffer = <<>>
    /\ emitted = <<>>
    /\ last_recv = [kind |-> "none"]

\* a datagram in flight arrives
Deliver(i) ==
    /\ RecvFrom(pending[i])
    /\ pending' = RemoveAt(pending, i)
    /\ UNCHANGED <<scenario, pacerVars, chunkVars, loopVars, cmdVars>>

\* a datagram in flight is lost
Lose ==
    /\ \E i \in 1..Len(pending) : pending' = RemoveAt(pending, i)
    /\ UNCHANGED <<frame_buffer, emitted, last_recv, scenario, pacerVars,
                   chunkVars, twinVars, loopVars, cmdVars>>

\* a datagram in flight is duplicated
Duplicate ==
    /\ scenario.duplicated < MaxDuplicates
    /\ \E i \in 1..Len(pending) :
          pending' = SubSeq(pending, 1, i) \o SubSeq(pending, i, Len(pending))
    /\ scenario' = [scenario EXCEPT !.duplicated = @ + 1]
    /\ UNCHANGED <<frame_buffer, emitted, last_recv, pacerVars, chunkVars,
                   twinVars, loopVars, cmdVars>>

\* a datagram of the following frame arrives
RecvForeign ==
    /\ RecvFrom(ForeignDatagram)
    /\ UNCHANGED <<pending, scenario, pacerVars, chunkVars, loopVars, cmdVars>>

\* a datagram with an invalid chunk index arrives
RecvInvalid ==
    /\ RecvFrom(InvalidDatagram(scenario.n))
    /\ UNCHANGED <<pending, scenario, pacerVars, chunkVars, twinVars,
                   loopVars, cmdVars>>

\* an undersized datagram arrives (Ok arm, size < 12: continue)
RecvShort ==
    /\ RecvFrom(ShortDatagram)
    /\ UNCHANGED <<pending, scenario, pacerVars, chunkVars, twinVars,
                   loopVars, cmdVars>>

\* recv_from returns an error, the 1 s read timeout included (Err arm:
\* continue)
RecvTimeout ==
    /\ last_recv' = [kind |-> "timeout"]
    /\ UNCHANGED <<frame_buffer, emitted, pending, scenario, pacerVars,
                   chunkVars, twinVars, loopVars, cmdVars>>

\* ms milliseconds pass
Tick(ms) ==
    /\ frame_buffer' = Aged(frame_buffer, ms)
    /\ UNCHANGED <<emitted, last_recv, pending, scenario, pacerVars,
                   chunkVars, loopVars, cmdVars>>

DeliverNet == \E i \in 1..Len(pending) : Deliver(i) /\ UNCHANGED twinVars

RecvForeignNet == RecvForeign /\ UNCHANGED twinVars

TickNet == \E ms \in TickSteps : Tick(ms) /\ UNCHANGED twinVars

NextNet == DeliverNet \/ Lose \/ RecvForeignNet \/ RecvInvalid \/ RecvShort
              \/ RecvTimeout \/ TickNet

SpecNet == InitNet /\ [][NextNet]_vars

\* The receive loop keeps running: a read that times out returns and the
\* loop goes on. The network holds no datagram for ever: each is delivered
\* or lost in the end. Nothing obliges the sender to send more.
FairNet == SpecNet /\ WF_vars(RecvTimeout) /\ <>(pending = <<>>)

\* ---- SpecSlots: as SpecNet, with datagrams of the frame in flight that
\*      carry another total_chunks than the sender's ----

\* a datagram of the frame in flight (n chunks) that claims n + 1 chunks
MismatchedDatagram(n, idx) ==
    Packet(U32(7), idx, n + 1, Payload(SmallChunk, FALSE, FALSE))

\* such a datagram arrives, with the first index or with the one index that
\* is valid for n + 1 chunks only
RecvMismatched ==
    /\ \E idx \in {0, scenario.n} :
          RecvFrom(MismatchedDatagram(scenario.n, idx))
    /\ UNCHANGED <<pending, scenario, pacerVars, chunkVars, twinVars,
                   loopVars, cmdVars>>

\* a datagram of the frame in flight that is a header and nothing else
HeaderOnlyDatagram(n) == Packet(U32(7), 0, n, <<>>)

RecvHeaderOnly ==
    /\ RecvFrom(HeaderOnlyDatagram(scenario.n))
    /\ UNCHANGED <<pending, scenario, pacerVars, chunkVars, twinVars,
                   loopVars, cmdVars>>

NextSlots == DeliverNet \/ Lose \/ RecvMismatched \/ RecvHeaderOnly \/ TickNet

SpecSlots == InitNet /\ [][NextSlots]_vars

\* ---- SpecTwin: a network that also duplicates datagrams, and two
\*      receivers. The second gets the same arrivals at the same times,
\*      except that a chunk which the first already holds in a fresh entry
\*      is not delivered to it.

\* the second receiver's iteration for datagram p (of at least 12 bytes)
OnceRecvFrom(p) ==
    LET o == IF IsFreshDuplicate(frame_buffer, p)
             THEN [buf |-> once_buffer, emit |-> <<>>]
             ELSE HandleDatagram(once_buffer, p)
    IN  /\ once_buffer' = o.buf
        /\ once_emitted' = once_emitted \o o.emit
        /\ once_skipped' = IF IsFreshDuplicate(frame_buffer, p)
                           THEN once_skipped + 1 ELSE once_skipped
        /\ once_outlived' =
              (once_outlived
                 \/ Outlives(HandleDatagram(frame_buffer, p).buf, o.buf))
        /\ UNCHANGED recv_threads

DeliverTwin ==
    \E i \in 1..Len(pending) : Deliver(i) /\ OnceRecvFrom(pending[i])

TickTwin ==
    \E ms \in TickSteps :
        /\ Tick(ms)
        /\ once_buffer' = Aged(once_buffer, ms)
        /\ once_outlived' =
              (once_outlived
                 \/ Outlives(Aged(frame_buffer, ms), Aged(once_buffer, ms)))
        /\ UNCHANGED <<once_emitted, once_skipped, recv_threads>>

NextTwin == DeliverTwin \/ Lose \/ Duplicate \/ TickTwin

SpecTwin == InitNet /\ [][NextTwin]_vars

\* ---- SpecLoop: the send loop of one UdpServer ----

MAX_CONSECUTIVE_ERRORS == 10

\* a captured frame shorter than this is skipped (line 70)
MIN_CAPTURE_LEN == 100

\* a captured frame longer than this is recompressed (line 76)
RECOMPRESS_ABOVE == 500000

\* the loop is followed for this many successful sends
MaxSends == 2

\* the same count, a WouldBlock resetting it as a success does
ErrorsAfterCaptureBlockResets(capture, errors) ==
    CASE capture = "none" -> errors
      [] capture = "Err"  -> errors + 1
      [] OTHER            -> 0

\* consecutive_errors after a cycle: the match on capture_fn()'s result
\* (lines 64-118), which a cycle whose pacer is not ready ("none") never
\* reaches
ErrorsAfterCapture(capture, errors) ==
    CASE capture = "none"       -> errors
      [] capture = "Ok"         -> 0
      [] capture = "WouldBlock" -> errors
      [] capture = "Err"        -> errors + 1

\* what capture_fn() returns: a frame of some length, "WouldBlock", or
\* another error
CaptureLens ==
    {0, MIN_CAPTURE_LEN - 1, MIN_CAPTURE_LEN, CHUNK_SIZE + 1,
     RECOMPRESS_ABOVE + 1}

\* what recompress_jpeg returns: an error (0) or a frame of some length
RecompressLens == {0, MIN_CAPTURE_LEN}

\* the send_to calls that fail during one send_chunked: none, the first,
\* or the last of the first pass
LoopFailSets(n) == {{}, {1}, {n}}

InitLoop ==
    /\ PacerIdle /\ ChunkIdle /\ RecvIdle /\ TwinIdle /\ CmdIdle
    /\ is_running = TRUE
    /\ loop_alive = TRUE
    /\ loop_frame_id \in {U32(0), [hi |-> 65535, lo |-> 65534]}
    /\ consecutive_errors = 0
    /\ loop_sends = 0
    /\ last_cycle = [kind |-> "start", blocked |-> FALSE, failures |-> 0]
    /\ recv_pc = "none"

\* only an empty capture is skipped
TooSmallOnlyEmpty(len) == len = 0

\* data.is_empty() || data.len() < 100
TooSmall(len) == len = 0 \/ len < MIN_CAPTURE_LEN

\* the observation of a cycle; captured: the length of the frame capture_fn
\* returned (0 when it returned none); blocked: a WouldBlock has been seen
\* since consecutive_errors was last 0; failures: the number of cycles in a
\* row, this one included, that ended in a capture or a recompression
\* error (counted up to MAX_CONSECUTIVE_ERRORS)
Cycle(capture, captured, outcome, datagrams) ==
    [kind      |-> "cycle",
     capture   |-> capture,
     captured  |-> captured,
     failures  |-> IF outcome \in {"capture_err", "recompress_err"}
                   THEN Min(last_cycle.failures + 1, MAX_CONSECUTIVE_ERRORS)
                   ELSE 0,
     outcome   |-> outcome,
     frame_id  |-> loop_frame_id,
     datagrams |-> datagrams,
     blocked   |-> CASE capture = "WouldBlock" -> consecutive_errors > 0
                     [] capture = "Err" -> last_cycle.blocked
                     [] capture = "Ok" -> FALSE
                     [] OTHER -> last_cycle.blocked]

\* a cycle that sends nothing and leaves the loop running
QuietCycle(capture, captured, outcome) ==
    /\ consecutive_errors' = ErrorsAfterCapture(capture, consecutive_errors)
    /\ last_cycle' = Cycle(capture, captured, outcome, 0)
    /\ UNCHANGED <<is_running, loop_alive, loop_frame_id, loop_sends,
                   pacerVars>>

\* the Ok(data) arm from line 88: send_chunked of the len bytes left of
\* the frame captured, and what follows it
SendFrame(captured, len) ==
    \E fails \in LoopFailSets(TotalChunks(len, CHUNK_SIZE)) :
        LET r == SendChunked(Payload(len, TRUE, TRUE), loop_frame_id,
                             CHUNK_SIZE, fails)
            ok   == r.ok
            sent == Len(r.sent)
        IN  /\ consecutive_errors' = ErrorsAfterCapture("Ok", consecutive_errors)
            /\ UNCHANGED <<is_running, loop_alive>>
            /\ IF ok
               THEN /\ loop_frame_id' = WrappingAdd1(loop_frame_id)
                    /\ loop_sends' = loop_sends + 1
                    /\ \E total_time \in FrameTimes(target_fps) :
                          AdjustForSlowFrame(total_time)
                    /\ last_cycle' = Cycle("Ok", captured, "sent", sent)
               ELSE /\ last_cycle' = Cycle("Ok", captured, "send_err", sent)
                    /\ UNCHANGED <<loop_frame_id, loop_sends, pacerVars>>

\* a loop that never looks at the flag
LoopConditionAlways(flag) == TRUE

\* while *is_running.lock().unwrap()
LoopCondition(flag) == flag

\* one iteration of the while loop (lines 54-133)
SendCycle ==
    /\ recv_pc = "none"
    /\ loop_alive /\ LoopCondition(is_running)
    /\ loop_sends < MaxSends
    /\ \/ \* pacer.should_capture() is false: sleep, continue
          QuietCycle("none", 0, "not_ready")
       \/ \* Err("WouldBlock")
          QuietCycle("WouldBlock", 0, "would_block")
       \/ \* any other Err
          IF ErrorsAfterCapture("Err", consecutive_errors)
                >= MAX_CONSECUTIVE_ERRORS
          THEN /\ consecutive_errors' =
                     ErrorsAfterCapture("Err", consecutive_errors)
               /\ is_running' = FALSE
               /\ loop_alive' = FALSE
               /\ last_cycle' = Cycle("Err", 0, "capture_err", 0)
               /\ UNCHANGED <<loop_frame_id, loop_sends, pacerVars>>
          ELSE QuietCycle("Err", 0, "capture_err")
       \/ \* Ok(data)
          \E len \in CaptureLens :
             IF TooSmall(len)
             THEN QuietCycle("Ok", len, "too_small")
             ELSE IF len > RECOMPRESS_ABOVE
             THEN \E again \in RecompressLens :
                     IF again = 0
                     THEN QuietCycle("Ok", len, "recompress_err")
                     ELSE SendFrame(len, again)
             ELSE SendFrame(len, len)
    /\ UNCHANGED <<recv_pc, chunkVars, recvVars, twinVars, cmdVars>>

\* UdpServer::stop or UdpClient::stop, called while the loop runs
StopStreaming ==
    /\ loop_alive
    /\ is_running' = FALSE
    /\ last_cycle' = [kind |-> "stop", blocked |-> last_cycle.blocked,
                      failures |-> last_cycle.failures]
    /\ UNCHANGED <<loop_alive, loop_frame_id, consecutive_errors, loop_sends,
                   recv_pc, pacerVars, chunkVars, recvVars, twinVars, cmdVars>>

\* the while condition is false: the task ends
LoopExit ==
    /\ recv_pc # "reading"
    /\ loop_alive /\ ~LoopCondition(is_running)
    /\ loop_alive' = FALSE
    /\ last_cycle' = [kind |-> "exit", blocked |-> last_cycle.blocked,
                      failures |-> last_cycle.failures]
    /\ UNCHANGED <<is_running, loop_frame_id, consecutive_errors, loop_sends,
                   recv_pc, pacerVars, chunkVars, recvVars, twinVars, cmdVars>>

NextLoop == SendCycle \/ StopStreaming \/ LoopExit

SpecLoop == InitLoop /\ [][NextLoop]_vars

\* The spawned task is scheduled again and again: while the flag is set it
\* runs another cycle, and once the flag is cleared it leaves the loop.
\* Nothing obliges anybody to call stop.
FairLoop == SpecLoop /\ WF_vars(SendCycle) /\ WF_vars(LoopExit)

\* ---- SpecLock: two receive threads that read from one socket and work on
\*      one frame_buffer, while the datagrams of one frame arrive ----

Threads == {1, 2}

\* a thread that works on the table as it was when its read returned
StaleTable(shared, seen) == seen

\* frame_buffer.lock(): the table a thread processes its datagram on is the
\* shared one as it is when the thread gets the lock, and nobody else
\* touches it until the guard is dropped at the end of the iteration
LockedTable(shared, seen) == shared

InitLock ==
    /\ PacerIdle /\ LoopIdle /\ CmdIdle
    /\ \E n \in NetChunkCounts :
          LET c   == ScaledChunk(n)
              len == (n - 1) * c + Max(c \div 2, MIN_FRAME_LEN - (n - 1) * c)
              d   == Payload(len, TRUE, TRUE)
              r   == SendChunked(d, U32(7), c, {})
          IN  /\ chunk_size = c
              /\ data = d
              /\ frame_id = U32(7)
              /\ wire = r.sent
              /\ send_result = "ok"
              /\ send_calls = r.calls
              /\ scenario = [order |-> "net", n |-> n, drop |-> {},
                             duplicated |-> 0]
              /\ pending = r.sent
    /\ frame_buffer = <<>>
    /\ emitted = <<>>
    /\ last_recv = [kind |-> "none"]
    /\ once_buffer = <<>>
    /\ once_emitted = <<>>
    /\ once_skipped = 0
    /\ once_outlived = FALSE
    /\ recv_threads = [t \in Threads |-> [buf |-> <<>>, seen |-> <<>>]]

\* recv_from of thread t returns a datagram in flight (lines 57-68, before
\* the lock)
ThreadRead(t) ==
    /\ recv_threads[t].buf = <<>>
    /\ \E i \in 1..Len(pending) :
          /\ recv_threads' =
                [recv_threads EXCEPT ![t] =
                    [buf |-> pending[i], seen |-> frame_buffer]]
          /\ pending' = RemoveAt(pending, i)
    /\ UNCHANGED <<frame_buffer, emitted, last_recv, scenario>>
    /\ UNCHANGED <<once_buffer, once_emitted, once_skipped, once_outlived>>
    /\ UNCHANGED <<pacerVars, chunkVars, loopVars, cmdVars>>

\* thread t takes the lock and processes its datagram (lines 70-180)
ThreadProcess(t) ==
    /\ recv_threads[t].buf # <<>>
    /\ LET p == recv_threads[t].buf
           r == HandleDatagram(
                    LockedTable(frame_buffer, recv_threads[t].seen), p)
       IN  /\ frame_buffer' = r.buf
           /\ emitted' = emitted \o r.emit
           /\ last_recv' =
                 [kind      |-> "dgram",
                  frame_id  |-> ParseDatagram(p).frame_id,
                  chunk_idx |-> ParseDatagram(p).chunk_idx,
                  total_chunks |-> ParseDatagram(p).total_chunks,
                  duplicate |-> IsFreshDuplicate(frame_buffer, p),
                  evicted   |-> {}]
    /\ recv_threads' = [recv_threads EXCEPT ![t].buf = <<>>]
    /\ UNCHANGED <<pending, scenario>>
    /\ UNCHANGED <<once_buffer, once_emitted, once_skipped, once_outlived>>
    /\ UNCHANGED <<pacerVars, chunkVars, loopVars, cmdVars>>

ThreadReads == \E t \in Threads : ThreadRead(t)

ThreadProcesses == \E t \in Threads : ThreadProcess(t)

NextLock == ThreadReads \/ ThreadProcesses

SpecLock == InitLock /\ [][NextLock]_vars

\* ---- SpecStop: a loop and the stop() that ends it. The loop followed is
\*      either the send loop of a UdpServer (recv_pc = "none") or the
\*      receive loop of a UdpClient, to which one frame is on its way ----

\* the state after UdpClient::start_receiving has spawned its thread
InitReceiveLoop ==
    /\ PacerIdle /\ TwinIdle /\ CmdIdle
    /\ \E n \in NetChunkCounts :
          LET c   == ScaledChunk(n)
              len == (n - 1) * c + Max(c \div 2, MIN_FRAME_LEN - (n - 1) * c)
              d   == Payload(len, TRUE, TRUE)
              r   == SendChunked(d, U32(7), c, {})
          IN  /\ chunk_size = c
              /\ data = d
              /\ frame_id = U32(7)
              /\ wire = r.sent
              /\ send_result = "ok"
              /\ send_calls = r.calls
              /\ scenario = [order |-> "net", n |-> n, drop |-> {},
                             duplicated |-> 0]
              /\ pending = r.sent
    /\ frame_buffer = <<>>
    /\ emitted = <<>>
    /\ last_recv = [kind |-> "none"]
    /\ is_running = TRUE
    /\ loop_alive = TRUE
    /\ loop_frame_id = U32(0)
    /\ consecutive_errors = 0
    /\ loop_sends = 0
    /\ last_cycle = [kind |-> "start", blocked |-> FALSE, failures |-> 0]
    /\ recv_pc = "top"

InitStop == InitLoop \/ InitReceiveLoop

\* the while condition of the receive loop is true: recv_from is called
EnterRead ==
    /\ recv_pc = "top"
    /\ loop_alive /\ LoopCondition(is_running)
    /\ recv_pc' = "reading"
    /\ UNCHANGED <<is_running, loop_alive, loop_frame_id, consecutive_errors,
                   loop_sends, last_cycle>>
    /\ UNCHANGED <<pacerVars, chunkVars, recvVars, twinVars, cmdVars>>

\* the rest of an iteration that leaves the loop variables alone
BackToTop ==
    /\ recv_pc = "reading"
    /\ recv_pc' = "top"
    /\ UNCHANGED <<is_running, loop_alive, loop_frame_id, consecutive_errors,
                   loop_sends, last_cycle>>
    /\ UNCHANGED <<scenario, pacerVars, chunkVars, twinVars, cmdVars>>

\* recv_from returns a datagram in flight, and the iteration processes it
ReadDatagram ==
    /\ \E i \in 1..Len(pending) :
          RecvFrom(pending[i]) /\ pending' = RemoveAt(pending, i)
    /\ BackToTop

\* recv_from returns an undersized datagram
ReadShort ==
    /\ RecvFrom(ShortDatagram)
    /\ UNCHANGED pending
    /\ BackToTop

\* recv_from returns after the read timeout of 1 s (Err arm: continue)
ReadTimesOut ==
    /\ last_recv' = [kind |-> "timeout"]
    /\ UNCHANGED <<frame_buffer, emitted, pending>>
    /\ BackToTop

NextStop ==
    SendCycle \/ StopStreaming \/ LoopExit \/ EnterRead \/ ReadDatagram
        \/ ReadShort \/ ReadTimesOut \/ Lose

SpecStop == InitStop /\ [][NextStop]_vars

\* The task or thread of the loop keeps being scheduled, and a socket read
\* returns after the read timeout at the latest.
FairStop == SpecStop /\ WF_vars(LoopExit) /\ WF_vars(ReadTimesOut)

\* ---- SpecCmd: the commands of lib.rs and the loops they start ----

Kinds == {"server", "client"}

\* the number of commands invoked in a run
MaxCommands == 3

\* UdpServer::new / UdpClient::new
NewInstance(k) == [kind |-> k, is_running |-> FALSE]

\* a stop that flips the flag
StopInstanceToggle(insts, i) == [insts EXCEPT ![i].is_running = ~@]

\* UdpServer::stop / UdpClient::stop on instance i
StopInstance(insts, i) == [insts EXCEPT ![i].is_running = FALSE]

\* the first statement of start_streaming / start_receiving on instance i
StartInstance(insts, i) == [insts EXCEPT ![i].is_running = TRUE]

\* a loop of instance i is still in its while loop and its flag is set
Running(l) == loops[l].alive /\ instances[loops[l].inst].is_running

InitCmd ==
    /\ PacerIdle /\ ChunkIdle /\ RecvIdle /\ TwinIdle /\ LoopIdle
    /\ CmdIdle

\* start_server / start_client; new() may fail, and then nothing else happens
StartCommand ==
    /\ Len(cmd_log) < MaxCommands
    /\ \E k \in Kinds, new_ok \in BOOLEAN :
          LET i == Len(instances) + 1
          IN  IF new_ok
              THEN /\ instances' =
                        StartInstance(Append(instances, NewInstance(k)), i)
                   /\ loops' = Append(loops, [inst |-> i, alive |-> TRUE])
                   /\ stored' = [stored EXCEPT ![k] = i]
                   /\ cmd_log' = Append(cmd_log,
                        [cmd |-> "start", kind |-> k, result |-> "Ok",
                         held |-> stored[k], was_running |-> FALSE])
              ELSE /\ cmd_log' = Append(cmd_log,
                        [cmd |-> "start", kind |-> k, result |-> "Err",
                         held |-> stored[k], was_running |-> FALSE])
                   /\ UNCHANGED <<instances, loops, stored>>
    /\ UNCHANGED <<pacerVars, chunkVars, recvVars, twinVars, loopVars>>

\* start_streaming / start_receiving called once more on the instance held
StartAgain ==
    /\ Len(cmd_log) < MaxCommands
    /\ \E k \in Kinds :
          /\ stored[k] # 0
          /\ instances' = StartInstance(instances, stored[k])
          /\ loops' = Append(loops, [inst |-> stored[k], alive |-> TRUE])
          /\ cmd_log' = Append(cmd_log,
                [cmd |-> "start_again", kind |-> k, result |-> "Ok",
                 held |-> stored[k],
                 was_running |-> instances[stored[k]].is_running])
    /\ UNCHANGED <<stored, pacerVars, chunkVars, recvVars, twinVars, loopVars>>

\* stop_server / stop_client
StopCommand ==
    /\ Len(cmd_log) < MaxCommands
    /\ \E k \in Kinds :
          /\ instances' = IF stored[k] # 0
                          THEN StopInstance(instances, stored[k])
                          ELSE instances
          /\ stored' = [stored EXCEPT ![k] = 0]
          /\ cmd_log' = Append(cmd_log,
                [cmd |-> "stop", kind |-> k, result |-> "Ok",
                 held |-> stored[k],
                 was_running |-> IF stored[k] # 0
                                 THEN instances[stored[k]].is_running
                                 ELSE FALSE])
    /\ UNCHANGED <<loops, pacerVars, chunkVars, recvVars, twinVars, loopVars>>

\* a loop finds its flag false and ends (udp_server.rs:54, udp_client.rs:57)
LoopEnds ==
    /\ \E l \in 1..Len(loops) :
          /\ loops[l].alive
          /\ ~instances[loops[l].inst].is_running
          /\ loops' = [loops EXCEPT ![l].alive = FALSE]
    /\ UNCHANGED <<instances, stored, cmd_log, pacerVars, chunkVars, recvVars,
                   twinVars, loopVars>>

\* a send loop gives up after MAX_CONSECUTIVE_ERRORS capture errors
\* (udp_server.rs:122-126): it clears the flag and breaks
LoopGivesUp ==
    /\ \E l \in 1..Len(loops) :
          /\ Running(l)
          /\ instances[loops[l].inst].kind = "server"
          /\ instances' = StopInstance(instances, loops[l].inst)
          /\ loops' = [loops EXCEPT ![l].alive = FALSE]
    /\ UNCHANGED <<stored, cmd_log, pacerVars, chunkVars, recvVars, twinVars,
                   loopVars>>

NextCmd == StartCommand \/ StartAgain \/ StopCommand \/ LoopEnds \/ LoopGivesUp

SpecCmd == InitCmd /\ [][NextCmd]_vars

(***************************************************************************)
(* Claims                                                                  *)
(***************************************************************************)

ChunkingRoundTrip ==
    send_result = "ok" =>
        LET len == Len(data)
            n   == CeilDiv(len, chunk_size)
            ch  == [i \in 1..n |-> ParseDatagram(wire[i])]
        IN  /\ Len(wire) >= n
            /\ \A i \in 1..n :
                  /\ Len(wire[i]) >= HEADER_LEN
                  /\ ch[i].chunk_idx = i - 1
                  /\ ch[i].total_chunks = n
                  /\ Len(ch[i].chunk_data) =
                        IF i < n THEN chunk_size
                        ELSE len - (n - 1) * chunk_size
            /\ Concat([i \in 1..n |-> ch[i].chunk_data]) = data

\* a payload of C+1 bytes went out as a full chunk and a chunk of one byte
ChunkingRoundTripWitness ==
    /\ send_result = "ok"
    /\ chunk_size = CHUNK_SIZE
    /\ Len(data) = CHUNK_SIZE + 1
    /\ Len(wire) = 2
    /\ Len(wire[2]) = HEADER_LEN + 1

\* the frames the consumer decodes from the events emitted
EmittedFrames(em) == [i \in 1..Len(em) |-> Base64Decode(em[i].image)]

(***************************************************************************)
(* C2: when a valid image payload is split into n chunks and all of them   *)
(* arrive in index order with no loss, the payload the receiver emits for  *)
(* the frame is byte-identical to the payload sent: once everything has    *)
(* arrived the frame has been emitted, and no event emitted for it differs *)
(* from the payload.                                                       *)
(***************************************************************************)
InOrderDeliveryIdentical ==
    (scenario.order \in {"sent", "forward"} /\ scenario.drop = {}) =>
        /\ \A i \in 1..Len(emitted) :
              /\ emitted[i].frame_id = frame_id
              /\ Base64Decode(emitted[i].image) = data
        /\ (pending = <<>> => Len(emitted) >= 1)

(***************************************************************************)
(* C5: delivering all n chunks of a frame in reverse index order makes the *)
(* receiver emit the same reconstructed payload as delivering them in      *)
(* forward index order.                                                    *)
(***************************************************************************)
ReverseSameAsForward ==
    (scenario.order = "reverse" /\ scenario.drop = {} /\ pending = <<>>) =>
        EmittedFrames(emitted)
            = EmittedFrames(ReceiveAll(<<>>, SubSeq(wire, 1, scenario.n)))

(***************************************************************************)
(* C6: a 100-chunk frame of which exactly one chunk index never arrives is *)
(* emitted via the salvage path once its other 99 chunks have arrived      *)
(* (given that it starts with the start marker, i.e. chunk 0 arrived), its *)
(* payload being the 99 chunks in index order; a 100-chunk frame of which  *)
(* 5 chunks never arrive is never emitted.                                 *)
(***************************************************************************)
\* the payload without the chunks of the given indexes
WithoutChunks(d, c, drop) ==
    LET ch == ChunksOf(d, c)
    IN  Concat(SelectSeq([i \in 1..Len(ch) |-> IF (i - 1) \in drop THEN <<>>
                                               ELSE ch[i]],
                         LAMBDA x : x # <<>>))

SalvageThresholdWitnessFive ==
    /\ scenario.order = "forward" /\ scenario.n = 100
    /\ Cardinality(scenario.drop) = 5
    /\ pending = <<>>
    /\ emitted = <<>>
    /\ \E id \in DOMAIN frame_buffer : ReceivedChunks(frame_buffer[id].chunks) = 95

\* the slots of every entry of a table that has not timed out
FreshSlots(buf) == [id \in DOMAIN Retain(buf) |-> buf[id].chunks]

\* a step in which a datagram leaves the network that repeats a chunk held
\* by a fresh entry changes neither that entry's slots nor the events
DuplicateLeavesSlots ==
    \A i \in 1..Len(pending) :
        (pending' = RemoveAt(pending, i)
            /\ IsFreshDuplicate(frame_buffer, pending[i])) =>
        LET id == ParseDatagram(pending[i]).frame_id
        IN  /\ id \in DOMAIN frame_buffer'
            /\ frame_buffer'[id].chunks = frame_buffer[id].chunks
            /\ emitted' = emitted

(***************************************************************************)
(* C4, as it stands: delivering a chunk a second time while its frame is   *)
(* in flight leaves the entry's slots unchanged, and the payload           *)
(* reconstructed for the frame in the end is the one reconstructed when    *)
(* the chunk is delivered only once.                                       *)
(***************************************************************************)
DuplicateDeliveryHarmless ==
    [][/\ DuplicateLeavesSlots
       /\ (pending' = <<>> =>
              EmittedFrames(emitted') = EmittedFrames(once_emitted'))]_vars

(***************************************************************************)
(* C4, amended: delivering a chunk a second time while its frame's entry   *)
(* is in the table and has not timed out leaves the entry's slots          *)
(* unchanged and emits nothing, but it does renew last_update. As long as  *)
(* no entry has stayed fresh only through such a renewal (one that had     *)
(* timed out in the run where every chunk is delivered once), the fresh    *)
(* entries and the payloads reconstructed are the same in both runs.       *)
(***************************************************************************)
DuplicateHarmlessUnlessOutlived ==
    [][/\ DuplicateLeavesSlots
       /\ (~once_outlived' =>
              /\ EmittedFrames(emitted') = EmittedFrames(once_emitted')
              /\ FreshSlots(frame_buffer') = FreshSlots(once_buffer'))]_vars

\* a repeated chunk was delivered, and the frame came out whole in both runs
DuplicateHarmlessWitness ==
    /\ once_skipped >= 1
    /\ ~once_outlived
    /\ pending = <<>>
    /\ Len(emitted) = 1 /\ Len(once_emitted) = 1
    /\ Base64Decode(emitted[1].image) = data
    /\ Base64Decode(once_emitted[1].image) = data

(***************************************************************************)
(* C7: a frame that has received only a part of its chunks, below the      *)
(* salvage threshold, and then receives no further chunk for the timeout   *)
(* (500 ms) or longer is removed from the in-flight table, and it is never *)
(* emitted.                                                                *)
(***************************************************************************)
PartialFrameEvicted ==
    (/\ pending = <<>>
     /\ emitted = <<>>
     /\ frame_id \in DOMAIN frame_buffer
     /\ frame_buffer[frame_id].age >= FRAME_TIMEOUT_MS)
        ~> (frame_id \notin DOMAIN frame_buffer /\ emitted = <<>>)


(***************************************************************************)
(* C8: in the send loop a capture failure other than WouldBlock adds one   *)
(* to the failure counter, and the tenth in a row stops the loop and sets  *)
(* running to false; a successful capture resets the counter to 0; a       *)
(* WouldBlock neither adds to the counter nor resets it, and never stops   *)
(* the loop.                                                               *)
(***************************************************************************)
ConsecutiveFailureStop ==
    [][last_cycle'.kind = "cycle" =>
        /\ last_cycle'.capture = "Err" =>
              /\ consecutive_errors' = consecutive_errors + 1
              /\ IF consecutive_errors' >= MAX_CONSECUTIVE_ERRORS
                 THEN ~is_running' /\ ~loop_alive'
                 ELSE is_running' /\ loop_alive'
        /\ last_cycle'.capture = "Ok" =>
              consecutive_errors' = 0 /\ is_running' /\ loop_alive'
        /\ last_cycle'.capture = "WouldBlock" =>
              /\ consecutive_errors' = consecutive_errors
              /\ is_running' /\ loop_alive'
        /\ consecutive_errors < MAX_CONSECUTIVE_ERRORS]_vars

\* ten failures with a WouldBlock somewhere between them stopped the loop
ConsecutiveFailureStopWitness ==
    /\ last_cycle.kind = "cycle" /\ last_cycle.capture = "Err"
    /\ last_cycle.blocked
    /\ consecutive_errors = MAX_CONSECUTIVE_ERRORS
    /\ ~is_running /\ ~loop_alive

\* the commands of kind k invoked so far
CommandsOf(k) == SelectSeq(cmd_log, LAMBDA c : c.kind = k)

(***************************************************************************)
(* C9: after a start command invoked twice with no stop in between and     *)
(* then one stop, no loop started by either call is still running: none is *)
(* in its while loop with its running flag set.                            *)
(***************************************************************************)
NoLoopLeftRunning ==
    \A k \in Kinds :
        LET cs == CommandsOf(k)
            n  == Len(cs)
        IN  (/\ n >= 3
             /\ cs[n].cmd = "stop"
             /\ cs[n - 1].cmd \in {"start", "start_again"}
             /\ cs[n - 1].result = "Ok"
             /\ cs[n - 2].cmd \in {"start", "start_again"}
             /\ cs[n - 2].result = "Ok") =>
                \A l \in 1..Len(loops) :
                    instances[loops[l].inst].kind = k => ~Running(l)

(***************************************************************************)
(* C10: a stop command invoked while nothing is running (no instance is    *)
(* stored, or the stored instance's flag is already false) starts no loop  *)
(* and stops none, leaves every running flag as it was (false for the      *)
(* stored instance), leaves no instance stored, and returns Ok.            *)
(***************************************************************************)
StopWhenIdleIsNoOp ==
    [][\A k \in Kinds :
          (/\ cmd_log' # cmd_log
           /\ cmd_log'[Len(cmd_log')].cmd = "stop"
           /\ cmd_log'[Len(cmd_log')].kind = k
           /\ (stored[k] = 0 \/ ~instances[stored[k]].is_running)) =>
              /\ loops' = loops
              /\ instances' = instances
              /\ stored' = [stored EXCEPT ![k] = 0]
              /\ cmd_log'[Len(cmd_log')].result = "Ok"]_vars

\* stop_server found an instance whose loop had given up, and a second
\* stop_server found none
StopWhenIdleIsNoOpWitness ==
    /\ Len(cmd_log) = 3
    /\ cmd_log[2].cmd = "stop" /\ cmd_log[2].kind = "server"
    /\ cmd_log[2].held # 0 /\ ~cmd_log[2].was_running
    /\ cmd_log[3].cmd = "stop" /\ cmd_log[3].kind = "server"
    /\ cmd_log[3].held = 0
    /\ cmd_log[3].result = "Ok"
    /\ stored["server"] = 0
    /\ \A l \in 1..Len(loops) : ~Running(l)

\* C11: should_capture returns true exactly when at least one interval of
\* 1000 \div target_fps ms has elapsed since last_frame_time (construction,
\* reset, or the last call that returned true), so repeated calls inside the
\* interval all return false; a call that returns false leaves
\* last_frame_time and frame_count as they were, and a call that returns true
\* sets last_frame_time to now and adds exactly one to frame_count.
ShouldCaptureStep ==
    last_report'.op = "should_capture" =>
        /\ last_report'.result = (last_frame_time >= 1000 \div target_fps)
        /\ last_report'.result =>
               /\ last_frame_time' = 0
               /\ frame_count' = frame_count + 1
        /\ ~last_report'.result =>
               /\ last_frame_time' = last_frame_time
               /\ frame_count' = frame_count

ShouldCaptureContract == [][ShouldCaptureStep]_vars

\* a call inside the interval that follows a capture has returned false, at
\* 30 fps and 32 ms after the capture
ShouldCaptureContractWitness ==
    /\ last_report.op = "should_capture"
    /\ ~last_report.result
    /\ target_fps = TARGET_FPS
    /\ frame_count = 2
    /\ last_frame_time = Spf(TARGET_FPS) - 1

\* C12: the first call of should_capture on a new FramePacer, made before one
\* interval has elapsed since FramePacer::new, returns true.
FirstCallReturnsTrue ==
    (/\ last_report.op = "should_capture"
     /\ last_report.before = 0
     /\ last_report.arg < 1000 \div target_fps) => last_report.result

\* C13: adjust_for_packet_loss with a loss rate above 10% sets target_fps to
\* max(floor(0.8 * target_fps), min_fps), and the new rate is strictly lower
\* than the old one whenever the old one was strictly above min_fps.
HighLossReducesRate ==
    (last_report.op = "loss" /\ last_report.arg > packet_loss_threshold) =>
        /\ target_fps = Max((4 * last_report.before) \div 5, min_fps)
        /\ last_report.before > min_fps => target_fps < last_report.before

\* the case of test_adaptive_pacer: 30 fps, limits 10 and 60, loss 0.15
HighLossReducesRateWitness ==
    /\ last_report = [op |-> "loss", arg |-> 150, before |-> TARGET_FPS]
    /\ min_fps = MIN_FPS /\ max_fps = MAX_FPS
    /\ target_fps = 24

\* the value of four bytes read as a big-endian number (below 2^31)
BigEndian(p, at) ==
    ((p[at] * 256 + p[at + 1]) * 256 + p[at + 2]) * 256 + p[at + 3]

\* C14: every datagram send_chunked puts on the wire, first pass and
\* retransmits alike, is the 12-byte big-endian header (frame_id,
\* chunk_index, total_chunks) followed by the bytes of that chunk, with
\* chunk_index < total_chunks and total_chunks = ceil(len / 8192) on all of
\* them; the receiver's header parse gives back exactly these four parts.
DatagramLayout ==
    \A k \in 1..Len(wire) :
        LET p     == wire[k]
            total == (Len(data) + 8191) \div 8192
            idx   == BigEndian(p, 5)
            chunk == SubSeq(data, idx * 8192 + 1,
                            Min((idx + 1) * 8192, Len(data)))
        IN  /\ Len(p) >= 12
            /\ p[1] * 256 + p[2] = frame_id.hi
            /\ p[3] * 256 + p[4] = frame_id.lo
            /\ idx < total
            /\ BigEndian(p, 9) = total
            /\ SubSeq(p, 13, Len(p)) = chunk
            /\ chunk # <<>>
            /\ ParseDatagram(p) =
                  [frame_id |-> frame_id, chunk_idx |-> idx,
                   total_chunks |-> total, chunk_data |-> chunk]

\* frame 1 of 2 * 8192 + 1 bytes went out in five datagrams, the last one the
\* retransmit of chunk 2 of 3 with its single byte
DatagramLayoutWitness ==
    /\ send_result = "ok"
    /\ frame_id = U32(1)
    /\ Len(data) = 2 * CHUNK_SIZE + 1
    /\ Len(wire) = 5
    /\ wire[5] = <<0, 0, 0, 1, 0, 0, 0, 2, 0, 0, 0, 3, data[Len(data)]>>

\* C15: a datagram whose chunk index is not below the chunk count of its
\* frame is discarded without touching the table entry of that frame: no
\* entry is created for a frame id not in the table, the slots and
\* last_update of an entry in the table stay as they were, and nothing is
\* emitted.
InvalidIndexStep ==
    (last_recv' # last_recv /\ last_recv'.kind = "dgram") =>
        LET id    == last_recv'.frame_id
            live  == /\ id \in DOMAIN frame_buffer
                     /\ frame_buffer[id].age < FRAME_TIMEOUT_MS
            count == IF live THEN Len(frame_buffer[id].chunks)
                     ELSE last_recv'.total_chunks
        IN  last_recv'.chunk_idx >= count =>
                /\ emitted' = emitted
                /\ id \notin DOMAIN frame_buffer =>
                       id \notin DOMAIN frame_buffer'
                /\ live =>
                       /\ id \in DOMAIN frame_buffer'
                       /\ frame_buffer'[id] = frame_buffer[id]

InvalidIndexLeavesEntry == [][InvalidIndexStep]_vars

\* C16: a datagram of less than 12 bytes is dropped: the in-flight table is
\* left exactly as it was (no entry created, modified or removed), nothing is
\* emitted, and the loop goes on to the next datagram.
UndersizedStep ==
    (last_recv' # last_recv /\ last_recv'.kind = "short") =>
        /\ frame_buffer' = frame_buffer
        /\ emitted' = emitted

UndersizedDropped == [][UndersizedStep]_vars

\* an undersized datagram has arrived while the table held a partial frame
\* that had timed out, and the entry is still there
UndersizedDroppedWitness ==
    /\ last_recv.kind = "short"
    /\ emitted = <<>>
    /\ U32(7) \in DOMAIN frame_buffer
    /\ frame_buffer[U32(7)].age >= FRAME_TIMEOUT_MS
    /\ ReceivedChunks(frame_buffer[U32(7)].chunks) = 1

\* C17: a frame is emitted only if its assembled payload has at least 100
\* bytes, begins with FF D8 and, when every slot was populated, ends with
\* FF D9; a salvaged frame needs no end marker; a frame that fails the
\* validation is never emitted. For a frame whose chunks have all arrived
\* (and which was not salvaged on the way) this decides the emission: it is
\* emitted exactly when the payload sent passes the three checks.
EmittedOnlyIfValid ==
    /\ \A i \in 1..Len(emitted) :
          LET f == Base64Decode(emitted[i].image)
          IN  /\ Len(f) >= 100
              /\ f[1] = 255 /\ f[2] = 216
              /\ emitted[i].complete =>
                     f[Len(f) - 1] = 255 /\ f[Len(f)] = 217
    /\ (pending = <<>> /\ scenario.drop = {} /\ scenario.n <= 50) =>
          (emitted # <<>> <=>
              /\ Len(data) >= 100
              /\ data[1] = 255 /\ data[2] = 216
              /\ data[Len(data) - 1] = 255 /\ data[Len(data)] = 217)

\* a frame of 51 chunks that carries no end marker was salvaged without its
\* last chunk and emitted
EmittedOnlyIfValidWitness ==
    /\ scenario.n = 51
    /\ Len(data) >= 2
    /\ ~HasJpegEnd(data)
    /\ Len(emitted) = 1
    /\ ~emitted[1].complete
    /\ ~HasJpegEnd(Base64Decode(emitted[1].image))

\* C18: an arrival that brings a frame to Complete (every slot populated) or
\* Salvaged (completion ratio above the threshold) removes the entry of the
\* frame in the same step, whether the frame was emitted or dropped by the
\* validation: at the end of a step the table holds no entry in a terminal
\* state.
NoTerminalEntryLeft ==
    \A id \in DOMAIN frame_buffer :
        LET chunks   == frame_buffer[id].chunks
            received == Cardinality({i \in 1..Len(chunks) : chunks[i] # <<>>})
        IN  /\ received < Len(chunks)
            /\ CompletionRatio(received, Len(chunks)) <= MIN_FRAME_COMPLETION

\* both chunks of a frame without start marker have arrived: nothing was
\* emitted and the entry is gone
NoTerminalEntryLeftWitness ==
    /\ scenario.n = 2 /\ scenario.drop = {}
    /\ pending = <<>>
    /\ last_recv.kind = "dgram"
    /\ Len(data) >= MIN_FRAME_LEN
    /\ ~HasJpegStart(data)
    /\ emitted = <<>>
    /\ frame_buffer = <<>>

\* the chunk indexes of the send_to calls made, in order
CalledIndexes == [k \in 1..Len(send_calls) |-> send_calls[k].chunk_idx]

\* C19: when the transmission of a chunk fails in the first pass of
\* send_chunked, the failure is reported and the chunks after it are still
\* transmitted: send_to is called for every chunk of the frame.
FailureDoesNotAbort ==
    send_result = "err" =>
        \A i \in 0..(TotalChunks(Len(data), chunk_size) - 1) :
            \E k \in 1..Len(send_calls) : send_calls[k].chunk_idx = i

\* C20: when the first pass goes through, send_chunked has transmitted the
\* chunks 0 .. total_chunks-1 in index order and, for total_chunks > 2,
\* after that chunk 0 and chunk total_chunks-1 once more, with the same
\* frame_id and total_chunks in the header; for total_chunks <= 2 every
\* chunk is transmitted exactly once; send_chunked succeeds whether or not
\* a retransmit has failed.
RetransmitAfterFullPass ==
    LET n        == (Len(data) + chunk_size - 1) \div chunk_size
        first_ok == /\ Len(send_calls) >= n
                    /\ \A k \in 1..n : ~send_calls[k].failed
        went_out == SelectSeq(send_calls, LAMBDA c : ~c.failed)
    IN  (send_result # "none" /\ first_ok) =>
            /\ send_result = "ok"
            /\ CalledIndexes =
                  [k \in 1..n |-> k - 1]
                      \o (IF n > 2 THEN <<0, n - 1>> ELSE <<>>)
            /\ Len(wire) = Len(went_out)
            /\ \A k \in 1..Len(wire) :
                  /\ ParseDatagram(wire[k]).frame_id = frame_id
                  /\ ParseDatagram(wire[k]).chunk_idx = went_out[k].chunk_idx
                  /\ ParseDatagram(wire[k]).total_chunks = n

\* a frame of three chunks went out, the retransmit of chunk 0 failed, the
\* one of chunk 2 did not, and send_chunked returned Ok
RetransmitAfterFullPassWitness ==
    /\ send_result = "ok"
    /\ Len(data) = 3 * CHUNK_SIZE
    /\ CalledIndexes = <<0, 1, 2, 0, 2>>
    /\ send_calls[4].failed
    /\ ~send_calls[5].failed
    /\ Len(wire) = 4

\* C21: every send attempt that puts at least one datagram on the wire uses
\* the frame id one step (modulo 2^32) after the id of the previous such
\* attempt, so that the datagrams of two payloads never share a frame id.
\* Stated for two attempts in consecutive cycles.
FrameIdStep ==
    (/\ last_cycle.kind = "cycle" /\ last_cycle.datagrams > 0
     /\ last_cycle'.kind = "cycle" /\ last_cycle'.datagrams > 0) =>
        last_cycle'.frame_id = WrappingAdd1(last_cycle.frame_id)

FrameIdNeverReused == [][FrameIdStep]_vars

\* C22: a captured payload that is empty or shorter than 100 bytes is never
\* chunked or transmitted: the cycle that captured it sends no datagram (and
\* uses up no frame id).
SmallCaptureNotSent ==
    (/\ last_cycle.kind = "cycle" /\ last_cycle.capture = "Ok"
     /\ last_cycle.captured < 100) =>
        /\ last_cycle.datagrams = 0
        /\ last_cycle.frame_id = loop_frame_id

\* a frame of 99 bytes was captured after a frame had been sent, and was
\* skipped
SmallCaptureNotSentWitness ==
    /\ last_cycle.kind = "cycle" /\ last_cycle.capture = "Ok"
    /\ last_cycle.captured = MIN_CAPTURE_LEN - 1
    /\ last_cycle.outcome = "too_small"
    /\ last_cycle.datagrams = 0
    /\ loop_sends = 1

\* C23: after 10 cycles in a row that each ended in a capture failure or a
\* recompression failure, the streaming loop has stopped and running is
\* false.
FailuresStopLoop ==
    (last_cycle.kind = "cycle" /\ last_cycle.failures >= 10) =>
        ~is_running /\ ~loop_alive

\* no send_to of the last cycle has succeeded
NothingWentOut == last_cycle.kind = "cycle" => last_cycle.datagrams = 0

\* the last cycle attempted a send and the send failed
SendFailed == last_cycle.kind = "cycle" /\ last_cycle.outcome = "send_err"

\* C24: when the transport is unusable, that is when from some point on
\* every send_to fails while the loop goes on attempting to send, the send
\* loop eventually stops and running becomes false.
UnusableTransportStops ==
    (<>[]NothingWentOut /\ []<>SendFailed) => <>(~is_running)

\* once the flag is cleared, the send loop starts no further cycle, and the
\* receive loop processes nothing more after the read it was in has returned
StoppedLoopStep ==
    ~is_running =>
        /\ is_running' = is_running
        /\ loop_frame_id' = loop_frame_id
        /\ consecutive_errors' = consecutive_errors
        /\ loop_sends' = loop_sends
        /\ last_cycle'.kind # "cycle"
              \/ (~loop_alive /\ last_cycle' = last_cycle)
        /\ recv_pc' # "reading" \/ recv_pc = "reading"
        /\ recv_pc # "reading" =>
               UNCHANGED <<frame_buffer, emitted, last_recv>>

\* C25: after stop() has cleared the running flag, with no start after it,
\* the loop eventually terminates: the send loop sees the flag at the top of
\* its next cycle and starts no further cycle; the receive loop exits once
\* the socket read it is in has returned, by a datagram or by the read
\* timeout, and processes at most that datagram.
StopEndsLoop ==
    /\ [][StoppedLoopStep]_vars
    /\ (~is_running) ~> (~loop_alive)

\* stop() came while the receive thread, which had stored one chunk of the
\* frame, was in recv_from again with the other datagrams still in flight
StopEndsLoopWitness ==
    /\ recv_pc = "reading"
    /\ ~is_running /\ loop_alive
    /\ last_cycle.kind = "stop"
    /\ U32(7) \in DOMAIN frame_buffer
    /\ ReceivedChunks(frame_buffer[U32(7)].chunks) = 1
    /\ Len(pending) = Len(wire) - 1

\* the chunk indexes of the datagrams of a sequence
IndexesOf(dgrams) ==
    {ParseDatagram(dgrams[k]).chunk_idx : k \in 1..Len(dgrams)}

\* the chunk indexes of the datagrams the threads have read and not yet
\* processed
HeldIndexes ==
    {ParseDatagram(recv_threads[t].buf).chunk_idx :
        t \in {u \in Threads : recv_threads[u].buf # <<>>}}

\* C26: an arrival is processed in one atomic step under the lock of the
\* table, so that with two receive threads on one table, in every
\* interleaving, the chunks of one frame lead to at most one emission of the
\* frame and no slot write is lost: a chunk that has been processed is in
\* its slot until the frame is emitted, and once every chunk has been
\* processed the frame has been emitted, whole, exactly once.
AtomicArrivals ==
    /\ Len(emitted) <= 1
    /\ emitted = <<>> =>
          \A i \in IndexesOf(wire) \ (IndexesOf(pending) \cup HeldIndexes) :
              /\ U32(7) \in DOMAIN frame_buffer
              /\ frame_buffer[U32(7)].chunks[i + 1] =
                    SubSeq(data, i * chunk_size + 1,
                           Min((i + 1) * chunk_size, Len(data)))
    /\ (pending = <<>> /\ HeldIndexes = {}) =>
          /\ Len(emitted) = 1
          /\ Base64Decode(emitted[1].image) = data

\* each thread read one of the two chunks of a frame before the other had
\* processed its own, and the frame has been emitted
AtomicArrivalsWitness ==
    /\ scenario.n = 2
    /\ pending = <<>> /\ HeldIndexes = {}
    /\ recv_threads[1].seen = <<>> /\ recv_threads[2].seen = <<>>
    /\ Len(emitted) = 1

\* C27: adjust_for_slow_frame takes a report as slow iff frame_time_ms >
\* 2 * (1000 / target_fps); the 5th slow report in a row sets target_fps to
\* max(floor(0.9 * target_fps), min_fps) and the counter to 0; a slow report
\* before the 5th only counts; a report that is not slow sets the counter
\* to 0 and leaves target_fps alone.
SlowFrameStep ==
    last_report'.op = "slow" =>
        LET slow == last_report'.arg > 2 * (1000 \div target_fps)
        IN  /\ consecutive_slow_frames < 5
            /\ (slow /\ consecutive_slow_frames = 4) =>
                   /\ target_fps' = Max((9 * target_fps) \div 10, min_fps)
                   /\ consecutive_slow_frames' = 0
            /\ (slow /\ consecutive_slow_frames < 4) =>
                   /\ target_fps' = target_fps
                   /\ consecutive_slow_frames' = consecutive_slow_frames + 1
            /\ ~slow =>
                   /\ target_fps' = target_fps
                   /\ consecutive_slow_frames' = 0

SlowFrameContract == [][SlowFrameStep]_vars

\* the server's pacer went from 30 to 27 on a fifth report of 67 ms
SlowFrameContractWitness ==
    /\ last_report = [op |-> "slow", arg |-> 67, before |-> TARGET_FPS]
    /\ min_fps = MIN_FPS /\ max_fps = MAX_FPS
    /\ target_fps = 27
    /\ consecutive_slow_frames = 0

\* C28: adjust_for_packet_loss with a loss rate below 5% sets target_fps to
\* min(floor(1.1 * target_fps), max_fps); a loss rate within [5%, 10%] leaves
\* target_fps as it is; and a report that does not change the clamped value
\* leaves the whole pacer as it was (no report changes anything but
\* target_fps).
LowLossStep ==
    last_report'.op = "loss" =>
        LET loss == last_report'.arg
        IN  /\ loss < 50 =>
                   target_fps' = Min((11 * target_fps) \div 10, max_fps)
            /\ (50 <= loss /\ loss <= 100) => target_fps' = target_fps
            /\ (loss > 100 /\ target_fps = min_fps) =>
                   target_fps' = target_fps
            /\ UNCHANGED <<min_fps, max_fps, consecutive_slow_frames,
                           last_frame_time, frame_count>>

LowLossContract == [][LowLossStep]_vars

\* a pacer at its upper limit of 60 got a report of 4.9% loss after four
\* slow frames, and nothing has changed
LowLossContractWitness ==
    /\ last_report = [op |-> "loss", arg |-> 49, before |-> MAX_FPS]
    /\ max_fps = MAX_FPS
    /\ target_fps = MAX_FPS
    /\ consecutive_slow_frames = 4

\* C29 as stated: no single loss or latency report lowers target_fps below
\* floor(0.8 * previous) or raises it above floor(1.1 * previous); in
\* particular no single report moves target_fps from max_fps to min_fps or
\* from min_fps to max_fps.
BoundedStep ==
    /\ target_fps' >= (8 * target_fps) \div 10
    /\ target_fps' <= (11 * target_fps) \div 10

ExtremeToExtreme ==
    /\ min_fps < max_fps
    /\ \/ target_fps = max_fps /\ target_fps' = min_fps
       \/ target_fps = min_fps /\ target_fps' = max_fps

IsReport == last_report'.op \in {"loss", "slow"}

NeverToAnExtreme == [][IsReport => (BoundedStep /\ ~ExtremeToExtreme)]_vars

\* C29 amended: every report keeps the new rate within
\* [floor(0.8 * previous), floor(1.1 * previous)]; when the range is wider
\* than one step (floor(0.8 * max_fps) > min_fps and
\* floor(1.1 * min_fps) < max_fps, as with 10/30/60), no single report moves
\* the rate from one limit to the other.
RangeWiderThanStep ==
    /\ (8 * max_fps) \div 10 > min_fps
    /\ (11 * min_fps) \div 10 < max_fps

BoundedSteps ==
    [][IsReport =>
          /\ BoundedStep
          /\ RangeWiderThanStep => ~ExtremeToExtreme]_vars

\* a pacer with limits 10 and 60 was at 60 and a report of 15% loss took it
\* to 48
BoundedStepsWitness ==
    /\ last_report = [op |-> "loss", arg |-> 150, before |-> MAX_FPS]
    /\ min_fps = MIN_FPS
    /\ max_fps = MAX_FPS
    /\ target_fps = 48

\* C30: a frame whose completion ratio is at or above 0.98 and below 1.0,
\* exactly 0.98 included (49 of 50 chunks), is processed on the arrival that
\* brings it to that ratio, so no entry with 98% or more of its slots filled
\* is ever left in the table; and a frame is emitted only if at least 98% of
\* its chunks arrive.
SalvagedAtThreshold ==
    /\ \A id \in DOMAIN frame_buffer :
          LET chunks == frame_buffer[id].chunks
          IN  100 * ReceivedChunks(chunks) < 98 * Len(chunks)
    /\ (scenario.order # "none" /\ emitted # <<>>) =>
          100 * (scenario.n - Cardinality(scenario.drop)) >= 98 * scenario.n

\* C31: stale-entry eviction runs on every iteration of the receive loop,
\* also on one whose read times out or fails and on one that receives an
\* undersized datagram: right after such an iteration no entry of the table
\* is as old as the timeout. (Time passing leaves last_recv as it is, so a
\* step that changes it is an iteration of the loop.)
NoStaleEntry(buf) ==
    \A id \in DOMAIN buf : buf[id].age < FRAME_TIMEOUT_MS

EvictionStep ==
    (last_recv' # last_recv /\ last_recv'.kind \in {"timeout", "short"}) =>
        NoStaleEntry(frame_buffer')

EvictionOnEveryIteration == [][EvictionStep]_vars

\* C32: eviction precedes slot processing on every valid arrival: right
\* after a datagram of at least 12 bytes has been processed, every entry left
\* in the table was last updated less than 500 ms before that processing.
\* (A step is the processing of a datagram when it records one, emits, or
\* changes the table otherwise than by ageing it.)
ProcessedDatagram ==
    /\ last_recv'.kind = "dgram"
    /\ \/ last_recv' # last_recv
       \/ emitted' # emitted
       \/ /\ frame_buffer' # frame_buffer
          /\ \A ms \in TickSteps : frame_buffer' # Aged(frame_buffer, ms)

EvictionBeforeProcessing ==
    [][ProcessedDatagram => NoStaleEntry(frame_buffer')]_vars

\* a datagram of the next frame arrived, the timed-out entry of frame 7 was
\* evicted and the new entry is in the table
EvictionBeforeProcessingWitness ==
    /\ last_recv.kind = "dgram"
    /\ last_recv.frame_id = U32(8)
    /\ last_recv.evicted = {U32(7)}
    /\ DOMAIN frame_buffer = {U32(8)}
    /\ frame_buffer[U32(8)].age = 0

\* C33: the slot count of an entry is fixed by the first chunk received for
\* its frame id and does not change while the entry exists, also when later
\* datagrams of that id carry another total_chunks; the index check and the
\* completion ratio use that slot count: an index not below it stores
\* nothing, and the entry is processed (removed) exactly when the ratio of
\* its populated slots to that count says so.
SlotCountStep ==
    LET id == last_recv'.frame_id
    IN  (ProcessedDatagram /\ id \in DOMAIN Retain(frame_buffer)) =>
            LET old    == frame_buffer[id].chunks
                idx    == last_recv'.chunk_idx
                filled == IF idx < Len(old)
                          THEN ReceivedChunks(old)
                                 - (IF old[idx + 1] # <<>> THEN 1 ELSE 0)
                                 + (IF last_recv'.payload_len > 0
                                    THEN 1 ELSE 0)
                          ELSE ReceivedChunks(old)
                ratio  == CompletionRatio(filled, Len(old))
            IN  /\ id \in DOMAIN frame_buffer' =>
                       Len(frame_buffer'[id].chunks) = Len(old)
                /\ idx >= Len(old) =>
                       /\ id \in DOMAIN frame_buffer'
                       /\ frame_buffer'[id].chunks = old
                /\ idx < Len(old) =>
                       (id \notin DOMAIN frame_buffer' <=> ShouldProcess(ratio))

SlotCountFixed == [][SlotCountStep]_vars

\* the entry of frame 7 has the sender's slot count and a datagram that
\* claimed one chunk more, with the index valid for that count only, has
\* just been refused
SlotCountFixedWitness ==
    /\ last_recv.kind = "dgram"
    /\ last_recv.frame_id = frame_id
    /\ last_recv.total_chunks = scenario.n + 1
    /\ last_recv.chunk_idx = scenario.n
    /\ frame_id \in DOMAIN frame_buffer
    /\ Len(frame_buffer[frame_id].chunks) = scenario.n
    /\ ReceivedChunks(frame_buffer[frame_id].chunks) > 0

\* C34: a populated slot of an entry stays populated with the same content
\* until the entry is destroyed, whatever datagram arrives for its frame id
\* and chunk index later (a header-only datagram included), so the number of
\* populated slots of an entry never decreases.
PopulatedSlotStep ==
    LET id == last_recv'.frame_id
    IN  (/\ ProcessedDatagram
         /\ id \in DOMAIN Retain(frame_buffer)
         /\ id \in DOMAIN frame_buffer') =>
            LET old == frame_buffer[id].chunks
                new == frame_buffer'[id].chunks
            IN  /\ \A i \in 1..Len(old) : old[i] # <<>> => new[i] = old[i]
                /\ ReceivedChunks(new) >= ReceivedChunks(old)

PopulatedSlotsKept == [][PopulatedSlotStep]_vars

\* C34, the count alone: the number of populated slots of an entry never
\* decreases while the entry exists.
PopulatedCountStep ==
    LET id == last_recv'.frame_id
    IN  (/\ ProcessedDatagram
         /\ id \in DOMAIN Retain(frame_buffer)
         /\ id \in DOMAIN frame_buffer') =>
            ReceivedChunks(frame_buffer'[id].chunks)
                >= ReceivedChunks(frame_buffer[id].chunks)

PopulatedCountKept == [][PopulatedCountStep]_vars

\* C35: the payload of a salvaged frame is the concatenation of exactly its
\* populated slots in ascending chunk index, whatever the order of arrival:
\* it is the original payload without the bytes of the chunks that are
\* missing when the frame is processed, and nothing else is changed.
SalvagedPayloadStep ==
    (/\ Len(emitted') = Len(emitted) + 1
     /\ ~emitted'[Len(emitted')].complete) =>
        LET e       == emitted'[Len(emitted')]
            id      == last_recv'.frame_id
            idx     == last_recv'.chunk_idx
            missing == {i \in 0..(scenario.n - 1) :
                          /\ i # idx
                          /\ \/ id \notin DOMAIN frame_buffer
                             \/ frame_buffer[id].chunks[i + 1] = <<>>}
        IN  /\ e.frame_id = frame_id
            /\ missing # {}
            /\ Base64Decode(e.image) = WithoutChunks(data, chunk_size, missing)

SalvagedPayload == [][SalvagedPayloadStep]_vars

\* chunk 25 of 51 never arrived, the others arrived in reverse order and
\* made a salvaged frame
SalvagedPayloadWitness ==
    /\ scenario.order = "reverse" /\ scenario.n = 51
    /\ scenario.drop = {25}
    /\ pending = <<>>
    /\ Len(emitted) = 1 /\ ~emitted[1].complete

\* C36: in the send loop the frame id advances by exactly 1 modulo 2^32
\* (from 2^32 - 1 to 0) in a cycle whose send_chunked call returns Ok, and is
\* left as it is by every other cycle: pacer not ready, WouldBlock, capture
\* error, undersized payload, recompress error and send error; so it is its
\* start value (0 in a new loop) plus the number of successful sends.
CycleOutcomes ==
    {"not_ready", "would_block", "capture_err", "too_small",
     "recompress_err", "send_err", "sent"}

FrameIdAdvanceStep ==
    /\ last_cycle'.kind = "cycle" =>
          /\ last_cycle'.outcome \in CycleOutcomes
          /\ last_cycle'.frame_id = loop_frame_id
          /\ last_cycle'.outcome = "sent" =>
                /\ loop_frame_id'.lo = (loop_frame_id.lo + 1) % 65536
                /\ loop_frame_id'.hi =
                      (loop_frame_id.hi
                         + (IF loop_frame_id.lo = 65535 THEN 1 ELSE 0)) % 65536
                /\ loop_sends' = loop_sends + 1
          /\ last_cycle'.outcome # "sent" =>
                /\ loop_frame_id' = loop_frame_id
                /\ loop_sends' = loop_sends
    /\ last_cycle'.kind # "cycle" => loop_frame_id' = loop_frame_id

FrameIdAdvance == [][FrameIdAdvanceStep]_vars

\* the frame with id 2^32 - 1 has been sent and the next id is 0
FrameIdAdvanceWitness ==
    /\ last_cycle.kind = "cycle"
    /\ last_cycle.outcome = "sent"
    /\ last_cycle.frame_id = [hi |-> 65535, lo |-> 65535]
    /\ loop_frame_id = U32(0)

\* C37: one payload per frame id, and a network that loses, reorders and
\* duplicates the datagrams of the frame: every frame the receiver emits
\* with all its slots populated (the complete path) carries the sender's
\* frame id and is byte for byte the payload given to send_chunked.
CompleteFrameIdentical ==
    \A i \in 1..Len(emitted) :
        emitted[i].complete =>
            /\ emitted[i].frame_id = frame_id
            /\ Base64Decode(emitted[i].image) = data

\* a 3-chunk frame of which one datagram was duplicated has been emitted
\* complete by the arrival of its middle chunk, after the last chunk
CompleteFrameIdenticalWitness ==
    /\ scenario.order = "net" /\ scenario.n = 3
    /\ scenario.duplicated = 1
    /\ Len(emitted) = 1 /\ emitted[1].complete
    /\ last_recv.kind = "dgram" /\ last_recv.chunk_idx = 1
    /\ frame_buffer = <<>>

\* C38: one successful send_chunked call per frame id, and a network that
\* loses and reorders but does not duplicate: the receiver emits each frame
\* id at most once, although the retransmits of chunk 0 and of the last
\* chunk (sent only when total_chunks > 2) and late chunks can arrive after
\* the frame was emitted and re-create an entry for it.
EmittedAtMostOnce ==
    \A i, j \in 1..Len(emitted) :
        emitted[i].frame_id = emitted[j].frame_id => i = j

\* a 3-chunk frame was emitted once, a retransmit that arrived afterwards
\* has re-created its entry, and nothing is left in flight
EmittedAtMostOnceWitness ==
    /\ scenario.order = "net" /\ scenario.n = 3
    /\ Len(emitted) = 1
    /\ emitted[1].frame_id = frame_id
    /\ frame_id \in DOMAIN frame_buffer
    /\ ReceivedChunks(frame_buffer[frame_id].chunks) = 2
    /\ pending = <<>>

\* C39: with the server's limits (min 10, max 60) an unbroken run of loss
\* reports above 10% takes target_fps down to min_fps within finitely many
\* reports and an unbroken run of loss reports below 5% takes it up to
\* max_fps; such a report never leaves the rate where it is strictly
\* between the limits.

\* the longest run of reports looked at
RunLimit == 25

RECURSIVE RunOfReports(_, _, _)
\* the rate after k loss reports of the same loss rate in a row (a report
\* that changes nothing is followed by reports that change nothing)
RunOfReports(fps, loss, k) ==
    LET next == FpsAfterLoss(fps, MIN_FPS, MAX_FPS, loss)
    IN  IF k = 0 \/ next = fps THEN fps
        ELSE RunOfReports(next, loss, k - 1)

ServerLimits == min_fps = MIN_FPS /\ max_fps = MAX_FPS

LossRunsReachTheLimits ==
    ServerLimits =>
        /\ MIN_FPS <= target_fps /\ target_fps <= MAX_FPS
        /\ \A loss \in {r \in LossRates : r > packet_loss_threshold} :
              /\ RunOfReports(target_fps, loss, RunLimit) = MIN_FPS
              /\ target_fps > MIN_FPS =>
                    RunOfReports(target_fps, loss, 1) < target_fps
        /\ \A loss \in {r \in LossRates : 2 * r < packet_loss_threshold} :
              /\ RunOfReports(target_fps, loss, RunLimit) = MAX_FPS
              /\ target_fps < MAX_FPS =>
                    RunOfReports(target_fps, loss, 1) > target_fps

\* the server's pacer has come down from 15 to 12 by a report of high loss
LossRunsWitness ==
    /\ ServerLimits
    /\ last_report.op = "loss"
    /\ last_report.arg > packet_loss_threshold
    /\ last_report.before = 15
    /\ target_fps = 12

\* C40: when a datagram of a frame id is processed 500 ms or more after the
\* last one of that id, what the entry held before the gap is discarded
\* before the chunk is stored: the entry is evicted and re-created, so after
\* the step it holds the new chunk and nothing else, and a frame emitted by
\* such a step consists of that one chunk.
GapStep ==
    LET id == last_recv'.frame_id
    IN  (/\ ProcessedDatagram
         /\ id \in DOMAIN frame_buffer
         /\ frame_buffer[id].age >= FRAME_TIMEOUT_MS) =>
            /\ id \in last_recv'.evicted
            /\ id \in DOMAIN frame_buffer' =>
                  /\ Len(frame_buffer'[id].chunks) = last_recv'.total_chunks
                  /\ \A i \in 1..Len(frame_buffer'[id].chunks) :
                        frame_buffer'[id].chunks[i] # <<>> =>
                            i = last_recv'.chunk_idx + 1
            /\ Len(emitted') > Len(emitted) => last_recv'.total_chunks = 1

NoChunksAcrossGap == [][GapStep]_vars

\* a chunk of frame 7 arrived 500 ms after the one before it: the old entry
\* was evicted and the new entry holds this chunk alone
NoChunksAcrossGapWitness ==
    /\ last_recv.kind = "dgram"
    /\ last_recv.frame_id = frame_id
    /\ last_recv.evicted = {frame_id}
    /\ last_recv.chunk_idx = 1
    /\ frame_id \in DOMAIN frame_buffer
    /\ frame_buffer[frame_id].age = 0
    /\ ReceivedChunks(frame_buffer[frame_id].chunks) = 1
    /\ frame_buffer[frame_id].chunks[1] = <<>>
    /\ emitted = <<>>

====
